---- MODULE Spec2Model ----
(***************************************************************************)
(* A model of gql-drift's core pipeline: flatten / unflatten               *)
(* (core/flatten.ts), the registry builder (core/registry.ts), the         *)
(* introspection gateway (core/introspection.ts, core/fetch.ts), the drift *)
(* client with its per-client type cache (core/drift.ts) and the query and *)
(* mutation builders (core/query-builder.ts, core/mutation-builder.ts).    *)
(***************************************************************************)
EXTENDS Integers, Sequences, FiniteSets, TLC

VARIABLES
  \* ---- flatten / unflatten (SpecFlatten) ----
  fields,     \* the FieldDefinition[] handed to flatten and unflatten
  data,       \* the nested object handed to flatten
  row,        \* the flat row flatten returned
  flatData,   \* the flat row handed to unflatten
  out,        \* the nested object unflatten returned
  pc,         \* position of the flatten/unflatten run
  \* ---- the drift client (SpecDrift) ----
  typeCache,  \* per client: typeName -> the cached promise (0: no entry)
  promises,   \* every promise resolveType created, with the progress of its async body
  calls,      \* the type(T) calls made so far and the promise each returned
  numCalls,   \* how many calls were made
  started,    \* per client and type name: how many resolutions were started
  defined,    \* what defineDriftType returned, with its options
  \* ---- the registry builder (SpecRegistry) ----
  regType,    \* the IntrospectionResult handed to buildRegistry
  regConfig,  \* the config: maxDepth, scalarMap and nestedTypes where given
  registry,   \* what buildRegistry returned, or that it raised
  asyncReg,   \* the buildRegistryAsync call on the same type: its progress and result
  \* ---- the selection-set, query and mutation builders (SpecQuery) ----
  qFields,    \* the FieldDefinition[] handed to the builders
  qOptions,   \* the options of buildQuery
  selections, \* what buildSelectionSet returned for the paths of qFields
  documents,  \* the documents built so far, by builder
  \* ---- the introspection gateway (SpecIntrospection) ----
  typeRef,    \* the IntrospectionType handed to unwrapType
  terminal,   \* what unwrapType returned
  introCall,  \* the introspectType call: its request, the response and its outcome
  \* ---- the client's mutations and the query helpers (SpecClient) ----
  cType,      \* the DriftType handed to client.update / client.create and the helpers
  cOptions,   \* the options of the call: id, values
  sent,       \* the requests handed to the transport, in order
  outcome,    \* the call made and how its promise stands
  queryNames  \* the query name each helper derived for cType

flatVars == <<fields, data, row, flatData, out, pc>>
driftVars == <<typeCache, promises, calls, numCalls, started, defined>>
regVars == <<regType, regConfig, registry, asyncReg>>
queryVars == <<qFields, qOptions, selections, documents>>
introVars == <<typeRef, terminal, introCall>>
clientVars == <<cType, cOptions, sent, outcome, queryNames>>

vars == <<fields, data, row, flatData, out, pc,
          typeCache, promises, calls, numCalls, started, defined,
          regType, regConfig, registry, asyncReg,
          qFields, qOptions, selections, documents,
          typeRef, terminal, introCall,
          cType, cOptions, sent, outcome, queryNames>>

\* nothing handed to the registry builder, nothing to the query builders
NotBuilt == [built |-> FALSE]
NotCalled == [state |-> "idle"]
RegistryIdle ==
  /\ regType = NotBuilt /\ regConfig = NotBuilt /\ registry = NotBuilt /\ asyncReg = NotCalled
QueryIdle ==
  /\ qFields = <<>> /\ qOptions = NotBuilt /\ selections = NotBuilt /\ documents = NotBuilt
IntrospectionIdle ==
  /\ typeRef = NotBuilt /\ terminal = NotBuilt /\ introCall = NotCalled
ClientIdle ==
  /\ cType = NotBuilt /\ cOptions = NotBuilt /\ sent = <<>> /\ outcome = NotCalled
  /\ queryNames = NotBuilt

(***************************************************************************)
(* Strings.  An identifier is the sequence of its camel-case words:        *)
(* "shippingAddress" is <<"shipping", "Address">>, so that concatenation   *)
(* is \o and capitalize acts on the first word.  A dotted string (a        *)
(* graphqlPath, a property name) is the sequence of its dot-free segments: *)
(* "shippingAddress.city" is <<<<"shipping", "Address">>, <<"city">>>>.     *)
(***************************************************************************)
Str(w) == <<w>>

(***************************************************************************)
(* JavaScript values.  An object is its own properties, keyed by property  *)
(* name; every object also inherits the members of Object.prototype.       *)
(***************************************************************************)
\* the identifiers the inputs are built from
SegA == Str("a")
SegB == Str("b")
SegC == Str("c")
SegCtor == Str("constructor")
SegId == Str("id")

Undefined == [t |-> "undefined"]
Null == [t |-> "null"]
Prim(v) == [t |-> "prim", v |-> v]
Obj(props) == [t |-> "object", props |-> props]
Builtin(n) == [t |-> "function", name |-> n]
TypeError == [t |-> "TypeError"]

EmptyProps == [n \in {} |-> Undefined]

\* value == null (loose equality): null or undefined
IsNullish(v) == v.t \in {"undefined", "null"}

\* The member names every value inherits from its prototype
\* (Object.prototype.constructor stands for them all).
ProtoNames == {<<SegCtor>>}

HasOwn(v, name) == v.t = "object" /\ name \in DOMAIN v.props

\* name in v
HasProp(v, name) == HasOwn(v, name) \/ name \in ProtoNames

\* v[name] for a value that is neither null nor undefined: the own property,
\* else the inherited member, else undefined.
GetProp(v, name) ==
  IF HasOwn(v, name) THEN v.props[name]
  ELSE IF name \in ProtoNames
       THEN Builtin(IF v.t = "function" THEN "Function" ELSE "Object")
       ELSE Undefined

\* obj[name] = v on a plain object: creates or overwrites the own property.
SetProp(obj, name, v) ==
  Obj([n \in DOMAIN obj.props \cup {name} |->
         IF n = name THEN v ELSE obj.props[n]])

(***************************************************************************)
(* core/flatten.ts                                                         *)
(***************************************************************************)
\* field.graphqlPath.split("."): graphqlPath is kept as its segments.
SplitPath(graphqlPath) == graphqlPath

\* graphqlPath.indexOf(".") === -1
HasNoDot(graphqlPath) == Len(graphqlPath) = 1

\* the inner loop of flatten: walk the parts, stop with undefined at a
\* null or undefined value
RECURSIVE Walk(_, _)
Walk(value, parts) ==
  IF parts = <<>> THEN value
  ELSE IF IsNullish(value) THEN Undefined
  ELSE Walk(GetProp(value, <<Head(parts)>>), Tail(parts))

IdName == <<SegId>>

\* flatten without its id copy
CopyIdNever(d) == Obj(EmptyProps)

\* if ("id" in data) row.id = data.id
CopyId(d) ==
  IF HasProp(d, IdName) THEN SetProp(Obj(EmptyProps), IdName, GetProp(d, IdName))
  ELSE Obj(EmptyProps)

RECURSIVE FlattenLoop(_, _, _)
FlattenLoop(r, d, fs) ==
  IF fs = <<>> THEN r
  ELSE FlattenLoop(SetProp(r, <<Head(fs).key>>, Walk(d, SplitPath(Head(fs).graphqlPath))),
                   d, Tail(fs))

flatten(d, fs) == FlattenLoop(CopyId(d), d, fs)

\* field.key in flatData
KeyPresent(fd, key) == HasProp(fd, <<key>>)

\* result[parent] ??= {}; result[parent][child] = value
AssignNested(result, parent, child, v) ==
  LET cur == GetProp(result, parent)
      res == IF IsNullish(cur) THEN SetProp(result, parent, Obj(EmptyProps)) ELSE result
      tgt == GetProp(res, parent)
  IN IF tgt.t = "object" /\ HasOwn(res, parent)
       THEN SetProp(res, parent, SetProp(tgt, child, v))
     ELSE IF tgt.t = "function"
       \* the write lands on the function object (an inherited member such as
       \* Object, or one copied from the row); result gains no property
       THEN res
     \* strict mode: creating a property on a primitive throws
     ELSE TypeError

RECURSIVE UnflattenLoop(_, _, _)
UnflattenLoop(result, fd, fs) ==
  IF fs = <<>> \/ result = TypeError THEN result
  ELSE LET f == Head(fs)
           v == GetProp(fd, <<f.key>>)
       IN IF ~KeyPresent(fd, f.key) THEN UnflattenLoop(result, fd, Tail(fs))
          ELSE IF HasNoDot(f.graphqlPath)
            THEN UnflattenLoop(SetProp(result, f.graphqlPath, v), fd, Tail(fs))
          ELSE UnflattenLoop(
                 AssignNested(result, <<Head(f.graphqlPath)>>, Tail(f.graphqlPath), v),
                 fd, Tail(fs))

unflatten(fd, fs) == UnflattenLoop(Obj(EmptyProps), fd, fs)

(***************************************************************************)
(* core/introspection.ts: unwrapType; core/registry.ts: the registry       *)
(* builder.  An IntrospectionType is a record with kind and, when they are *)
(* present, name, ofType and enumValues.                                   *)
(***************************************************************************)
ScalarT(n) == [kind |-> "SCALAR", name |-> Str(n)]
ObjectT(n) == [kind |-> "OBJECT", name |-> Str(n)]
EnumT(n, vals) == [kind |-> "ENUM", name |-> Str(n), enumValues |-> vals]
NonNullT(t) == [kind |-> "NON_NULL", ofType |-> t]
ListT(t) == [kind |-> "LIST", ofType |-> t]

\* current.ofType / unwrapped.name is there (neither missing nor null)
\* !current.ofType is false: the key is there and holds a type
HasOfType(t) == "ofType" \in DOMAIN t /\ t.ofType # Null
HasName(t) == "name" \in DOMAIN t

\* an unwrap that takes off the outermost wrapper only
unwrapOnce(t) == IF t.kind \in {"NON_NULL", "LIST"} /\ HasOfType(t) THEN t.ofType ELSE t

RECURSIVE unwrapType(_)
unwrapType(t) ==
  IF t.kind \in {"NON_NULL", "LIST"} /\ HasOfType(t) THEN unwrapType(t.ofType) ELSE t

DEFAULT_SCALAR_MAP ==
  [n \in {Str("String"), Str("Int"), Str("Float"), Str("Boolean"), Str("DateTime"), Str("ID")} |->
     CASE n = Str("String") -> "string"
       [] n = Str("Int") -> "number"
       [] n = Str("Float") -> "number"
       [] n = Str("Boolean") -> "boolean"
       [] n = Str("DateTime") -> "date"
       [] OTHER -> "string"]

EmptyMap == [n \in {} |-> "string"]

\* { ...a, ...b }
MergeMaps(a, b) == [k \in DOMAIN a \cup DOMAIN b |-> IF k \in DOMAIN b THEN b[k] ELSE a[k]]

\* name in map, for a map that is a plain object
InMap(name, map) == name \in DOMAIN map \/ <<name>> \in ProtoNames

\* s.charAt(0).toUpperCase() of a camel-case word
CapWord(w) ==
  CASE w = "status" -> "Status"
    [] w = "total" -> "Total"
    [] w = "city" -> "City"
    [] w = "shipping" -> "Shipping"
    [] w = "secret" -> "Secret"
    [] w = "note" -> "Note"
    [] w = "name" -> "Name"
    [] w = "id" -> "Id"
    [] w = "update" -> "Update"
    [] w = "create" -> "Create"
    [] w = "delete" -> "Delete"
    [] w = "child" -> "Child"
    [] w = "orders" -> "Orders"
    [] w = "x" -> "X"
    [] w = "y" -> "Y"
    [] w = "z" -> "Z"
    [] w = "first" -> "First"
    [] w = "last" -> "Last"
    [] w = "author" -> "Author"
    [] w = "title" -> "Title"
    [] OTHER -> w

capitalize(s) == IF s = <<>> THEN s ELSE <<CapWord(Head(s))>> \o Tail(s)

\* a space before every inner capital, and the first letter in upper case
formatLabel(fieldName) == [spaced |-> capitalize(fieldName)]

NoField == [resolved |-> FALSE]

resolveField(unwrapped, key, name, graphqlPath, scalarMap) ==
  IF unwrapped.kind = "ENUM"
    THEN [key |-> key, label |-> formatLabel(name), graphqlPath |-> graphqlPath, type |-> "enum",
          enumValues |-> IF "enumValues" \in DOMAIN unwrapped THEN unwrapped.enumValues ELSE <<>>]
  ELSE IF unwrapped.kind = "SCALAR" /\ HasName(unwrapped) /\ InMap(unwrapped.name, scalarMap)
    THEN [key |-> key, label |-> formatLabel(name), graphqlPath |-> graphqlPath,
          type |-> IF unwrapped.name \in DOMAIN scalarMap THEN scalarMap[unwrapped.name]
                   ELSE "Function:Object"]
  ELSE NoField

\* pathPrefix ? `${pathPrefix}.${field.name}` : field.name
PathOf(pathPrefix, name) == IF pathPrefix # <<>> THEN Append(pathPrefix, name) ELSE <<name>>

\* prefix ? `${prefix}${capitalize(field.name)}` : field.name
KeyOf(prefix, name) == IF prefix # <<>> THEN prefix \o capitalize(name) ELSE name

\* a registry loop that keeps the id fields
IsIdFieldNever(field) == FALSE

\* field.name === "id"
IsIdField(field) == field.name = SegId

\* The result of a registry build: the fields, or raised when the loop ran
\* over something that is no IntrospectionResult.
Built(fs) == [raised |-> FALSE, fields |-> fs]
Raised == [raised |-> TRUE, fields |-> <<>>]

RECURSIVE buildRegistrySync(_, _, _, _, _, _, _)
RECURSIVE SyncLoop(_, _, _, _, _, _, _, _)
SyncLoop(todo, acc, scalarMap, nestedTypes, maxDepth, depth, prefix, pathPrefix) ==
  IF todo = <<>> THEN Built(acc)
  ELSE
    LET field == Head(todo)
        unwrapped == unwrapType(field.type)
        graphqlPath == PathOf(pathPrefix, field.name)
        key == KeyOf(prefix, field.name)
        resolved == resolveField(unwrapped, key, field.name, graphqlPath, scalarMap)
        nested == IF unwrapped.name \in DOMAIN nestedTypes
                    THEN buildRegistrySync(nestedTypes[unwrapped.name], scalarMap, nestedTypes,
                                           maxDepth, depth + 1, key, graphqlPath)
                  ELSE Raised
    IN IF IsIdField(field)
         THEN SyncLoop(Tail(todo), acc, scalarMap, nestedTypes, maxDepth, depth, prefix, pathPrefix)
       ELSE IF resolved # NoField
         THEN SyncLoop(Tail(todo), Append(acc, resolved), scalarMap, nestedTypes, maxDepth,
                       depth, prefix, pathPrefix)
       ELSE IF /\ unwrapped.kind = "OBJECT" /\ depth < maxDepth /\ HasName(unwrapped)
               /\ InMap(unwrapped.name, nestedTypes)
         THEN IF nested.raised THEN Raised
              ELSE SyncLoop(Tail(todo), acc \o nested.fields, scalarMap, nestedTypes, maxDepth,
                            depth, prefix, pathPrefix)
       ELSE SyncLoop(Tail(todo), acc, scalarMap, nestedTypes, maxDepth, depth, prefix, pathPrefix)

buildRegistrySync(introspection, scalarMap, nestedTypes, maxDepth, depth, prefix, pathPrefix) ==
  SyncLoop(introspection.fields, <<>>, scalarMap, nestedTypes, maxDepth, depth, prefix, pathPrefix)

\* config?.maxDepth ?? 1
DefaultMaxDepth == 1
\* a depth budget that lets one level too many through
MaxDepthOfInclusive(config) ==
  (IF "maxDepth" \in DOMAIN config THEN config.maxDepth ELSE DefaultMaxDepth) + 1

MaxDepthOf(config) == IF "maxDepth" \in DOMAIN config THEN config.maxDepth ELSE DefaultMaxDepth
ScalarMapOf(config) ==
  MergeMaps(DEFAULT_SCALAR_MAP, IF "scalarMap" \in DOMAIN config THEN config.scalarMap ELSE EmptyMap)

\* the label overrides, applied to the built list in place
RECURSIVE ApplyLabels(_, _)
ApplyLabels(fs, labels) ==
  IF fs = <<>> THEN <<>>
  ELSE <<IF Head(fs).key \in DOMAIN labels
           THEN [Head(fs) EXCEPT !.label = labels[Head(fs).key]] ELSE Head(fs)>>
       \o ApplyLabels(Tail(fs), labels)

buildRegistry(introspection, config) ==
  LET built == buildRegistrySync(introspection, ScalarMapOf(config),
                 IF "nestedTypes" \in DOMAIN config THEN config.nestedTypes
                 ELSE [n \in {} |-> introspection],
                 MaxDepthOf(config), 0, <<>>, <<>>)
  IN IF built.raised THEN built
     ELSE Built(ApplyLabels(built.fields,
                  IF "labels" \in DOMAIN config THEN config.labels ELSE [k \in {} |-> <<>>]))

\* a getEditableFields that filters the input fields by the query keys
getEditableFieldsOfInput(queryFields, inputFields) ==
  SelectSeq(inputFields, LAMBDA f : \E i \in 1 .. Len(queryFields) : queryFields[i].key = f.key)

RECURSIVE FilterByKeys(_, _)
FilterByKeys(fs, keys) ==
  IF fs = <<>> THEN <<>>
  ELSE (IF Head(fs).key \in keys THEN <<Head(fs)>> ELSE <<>>) \o FilterByKeys(Tail(fs), keys)

getEditableFields(queryFields, inputFields) ==
  LET inputKeys == {inputFields[i].key : i \in 1 .. Len(inputFields)}
  IN FilterByKeys(queryFields, inputKeys)

(***************************************************************************)
(* core/fetch.ts, core/introspection.ts: the introspection gateway.  A     *)
(* call is modelled by what it does with the response the transport gives. *)
(***************************************************************************)
Threw(e) == [threw |-> TRUE, error |-> e]
Returned(v) == [threw |-> FALSE, value |-> v]

\* `GraphQL request failed: ${res.status} ${res.statusText}`
HttpError(status) == [message |-> "GraphQL request failed", status |-> status]
\* json.errors.map((e) => e.message).join(", ")
GqlError(messages) == [message |-> "joined", messages |-> messages]
\* `Type "${typeName}" not found in schema. ...`
TypeNotFound(typeName) == [message |-> "Type not found in schema", typeName |-> typeName]
\* `Could not introspect Mutation type. ...`
MutationDiscoveryError == [message |-> "Could not introspect Mutation type"]
\* `Input type "${inputTypeName}" not found in schema. ...`
InputTypeNotFound(inputTypeName) ==
  [message |-> "Input type not found in schema", typeName |-> inputTypeName]
\* a TypeError raised inside buildRegistry
RegistryTypeError == [message |-> "TypeError"]
NoError == [message |-> "none"]

\* json.data: undefined when the response body has no data
DataOf(resp) == IF "data" \in DOMAIN resp THEN resp.data ELSE Undefined

\* a transport that hands out the data of a response that carries errors
gqlFetchDataDespiteErrors(config, resp) ==
  IF ~resp.ok THEN Threw(HttpError(resp.status))
  ELSE IF Len(resp.errors) > 0 /\ "data" \notin DOMAIN resp THEN Threw(GqlError(resp.errors))
  ELSE Returned(DataOf(resp))

\* the built-in transport (config.fetcher is not set)
gqlFetch(config, resp) ==
  IF ~resp.ok THEN Threw(HttpError(resp.status))
  ELSE IF Len(resp.errors) > 0 THEN Threw(GqlError(resp.errors))
  ELSE Returned(DataOf(resp))

\* data?.__type
TypeOfData(d) == IF d \in {Undefined, Null} THEN Undefined ELSE d.type

introspectType(typeName, config, resp) ==
  LET r == gqlFetch(config, resp)
  IN IF r.threw THEN r
     ELSE IF TypeOfData(r.value) \in {Undefined, Null} THEN Threw(TypeNotFound(typeName))
     ELSE Returned(TypeOfData(r.value))

MutationTypeName == Str("Mutation")
Operations == <<"update", "create", "delete">>

\* `${op}${typeName}`
MutationNameOf(op, typeName) == <<op>> \o typeName

\* a discoverMutations without its try / catch
discoverMutationsUncaught(typeName, config, resp) ==
  LET r == introspectType(MutationTypeName, config, resp)
      present == {i \in 1 .. Len(Operations) :
                    \E k \in 1 .. Len(r.value.fields) :
                      r.value.fields[k].name = MutationNameOf(Operations[i], typeName)}
  IN IF r.threw THEN r
     ELSE Returned([op \in {Operations[i] : i \in present} |-> MutationNameOf(op, typeName)])

discoverMutations(typeName, config, resp) ==
  LET r == introspectType(MutationTypeName, config, resp)
      present == {i \in 1 .. Len(Operations) :
                    \E k \in 1 .. Len(r.value.fields) :
                      r.value.fields[k].name = MutationNameOf(Operations[i], typeName)}
  IN IF r.threw THEN Threw(MutationDiscoveryError)
     ELSE Returned([op \in {Operations[i] : i \in present} |-> MutationNameOf(op, typeName)])

\* `Update${typeName}Input`
InputTypeNameOf(typeName) == <<"Update">> \o typeName \o <<"Input">>

\* { maxDepth: config.maxDepth, scalarMap: config.scalarMap }
RegistryConfigOf(config) ==
  [k \in DOMAIN config \cap {"maxDepth", "scalarMap"} |-> config[k]]

buildInputRegistry(typeName, config, resp) ==
  LET r == introspectType(InputTypeNameOf(typeName), config, resp)
      built == buildRegistry(r.value, RegistryConfigOf(config))
  IN IF r.threw THEN Threw(InputTypeNotFound(InputTypeNameOf(typeName)))
     ELSE IF built.raised THEN Threw(RegistryTypeError)
     ELSE Returned(built.fields)

(***************************************************************************)
(* core/registry.ts: buildRegistryAsync.  The call stack of                *)
(* buildRegistryRecursive is a sequence of frames; AsyncRun runs the loops *)
(* up to the next await (a nested introspectType) or to the end.           *)
(***************************************************************************)
Frame(todo, depth, prefix, pathPrefix) ==
  [todo |-> todo, acc |-> <<>>, depth |-> depth, prefix |-> prefix, pathPrefix |-> pathPrefix]

Replace(stack, frame) == Append(SubSeq(stack, 1, Len(stack) - 1), frame)

RECURSIVE AsyncRun(_, _, _)
AsyncRun(stack, scalarMap, maxDepth) ==
  LET top == stack[Len(stack)]
      rest == SubSeq(stack, 1, Len(stack) - 1)
      field == Head(top.todo)
      unwrapped == unwrapType(field.type)
      graphqlPath == PathOf(top.pathPrefix, field.name)
      key == KeyOf(top.prefix, field.name)
      resolved == resolveField(unwrapped, key, field.name, graphqlPath, scalarMap)
      popped == [top EXCEPT !.todo = Tail(@)]
  IN IF top.todo = <<>>
       THEN IF rest = <<>> THEN [await |-> <<>>, stack |-> <<>>, fields |-> top.acc]
            ELSE AsyncRun(Replace(rest, [rest[Len(rest)] EXCEPT !.acc = @ \o top.acc]),
                          scalarMap, maxDepth)
     ELSE IF IsIdField(field) THEN AsyncRun(Replace(stack, popped), scalarMap, maxDepth)
     ELSE IF resolved # NoField
       THEN AsyncRun(Replace(stack, [popped EXCEPT !.acc = Append(@, resolved)]),
                     scalarMap, maxDepth)
     ELSE IF unwrapped.kind = "OBJECT" /\ top.depth < maxDepth /\ HasName(unwrapped)
       \* await introspectType(unwrapped.name, config): the frame of the nested
       \* call waits for its introspection
       THEN [await |-> unwrapped.name,
             stack |-> Append(Replace(stack, popped),
                              Frame(<<>>, top.depth + 1, key, graphqlPath)),
             fields |-> <<>>]
     ELSE AsyncRun(Replace(stack, popped), scalarMap, maxDepth)

\* a resume that forgets the path prefix of the activation it resumes
AsyncResumePathLost(stack, introspection, scalarMap, maxDepth) ==
  IF stack = <<>>
    THEN AsyncRun(<<Frame(introspection.fields, 0, <<>>, <<>>)>>, scalarMap, maxDepth)
  ELSE AsyncRun(Replace(stack, [stack[Len(stack)] EXCEPT !.todo = introspection.fields,
                                                         !.pathPrefix = <<>>]),
                scalarMap, maxDepth)

\* the introspection the registry build waited for has arrived
AsyncResume(stack, introspection, scalarMap, maxDepth) ==
  IF stack = <<>>
    THEN AsyncRun(<<Frame(introspection.fields, 0, <<>>, <<>>)>>, scalarMap, maxDepth)
  ELSE AsyncRun(Replace(stack, [stack[Len(stack)] EXCEPT !.todo = introspection.fields]),
                scalarMap, maxDepth)

(***************************************************************************)
(* core/drift.ts: createDrift, resolveType, defineDriftType                *)
(***************************************************************************)
NoValue == [typeName |-> <<>>]

\* the promise resolveType creates: the async body has run up to its first
\* await, the introspection of typeName inside buildRegistryAsync
NewPromise(c, typeName) ==
  [client |-> c, typeName |-> typeName, state |-> "pending", stage |-> "registry",
   awaiting |-> typeName, stack |-> <<>>,
   fields |-> <<>>, mutations |-> EmptyMap, inputFields |-> <<>>,
   value |-> NoValue, error |-> NoError,
   registryGateway |-> NoError, registryError |-> NoError,
   mutationsGateway |-> NoError, mutationsError |-> NoError,
   inputGateway |-> NoError, inputError |-> NoError]

Reject(pr, e) ==
  [pr EXCEPT !.state = "rejected", !.stage = "done", !.awaiting = <<>>, !.stack = <<>>,
             !.error = e]

\* a resolveType that never finds its cache entry
CacheGetMiss(cache, c, typeName) == 0

\* typeCache.get(typeName)
CacheGet(cache, c, typeName) == cache[c][typeName]

\* typeCache.set(typeName, promise)
CacheSet(cache, c, typeName, p) == [cache EXCEPT ![c][typeName] = p]

\* const fields = await buildRegistryAsync(typeName, config): one response
OnRegistryResponse(pr, config, resp) ==
  LET r == introspectType(pr.awaiting, config, resp)
      run == AsyncResume(pr.stack, r.value, ScalarMapOf(config), MaxDepthOf(config))
  IN IF r.threw THEN [Reject(pr, r.error) EXCEPT !.registryError = r.error]
     ELSE IF run.await # <<>> THEN [pr EXCEPT !.awaiting = run.await, !.stack = run.stack]
     ELSE [pr EXCEPT !.fields = run.fields, !.stack = <<>>,
                     !.stage = "mutations", !.awaiting = MutationTypeName]

\* a resolveType that lets the failure of discoverMutations through
OnDiscoverMutationsSurfaced(pr, dm) ==
  IF dm.threw THEN [Reject(pr, dm.error) EXCEPT !.mutationsError = dm.error]
  ELSE [pr EXCEPT !.mutations = dm.value,
                  !.stage = "input", !.awaiting = InputTypeNameOf(pr.typeName)]

\* try { mutations = await discoverMutations(...) } catch { mutations = new Map() }
OnDiscoverMutations(pr, dm) ==
  [pr EXCEPT !.mutations = IF dm.threw THEN EmptyMap ELSE dm.value,
             !.mutationsError = IF dm.threw THEN dm.error ELSE NoError,
             !.stage = "input", !.awaiting = InputTypeNameOf(pr.typeName)]

\* the DriftType the async body returns; obj is the identity of the object
DriftTypeOf(obj, typeName, fs, mutations, inputFields) ==
  [obj |-> obj, typeName |-> typeName, fields |-> fs, mutations |-> mutations,
   inputFields |-> inputFields, editableFields |-> getEditableFields(fs, inputFields)]

Fulfil(pr, p, inputFields, e) ==
  [pr EXCEPT !.state = "fulfilled", !.stage = "done", !.awaiting = <<>>,
             !.inputFields = inputFields, !.inputError = e,
             !.value = DriftTypeOf(p, pr.typeName, pr.fields, pr.mutations, inputFields)]

\* a resolveType that takes every field as writable when there is no input type
OnBuildInputRegistryAllWritable(pr, p, ir) ==
  Fulfil(pr, p, IF ir.threw THEN pr.fields ELSE ir.value, IF ir.threw THEN ir.error ELSE NoError)

\* let inputFields = []; try { inputFields = await buildInputRegistry(...) } catch {}
\* then editableFields and the return
OnBuildInputRegistry(pr, p, ir) ==
  Fulfil(pr, p, IF ir.threw THEN <<>> ELSE ir.value, IF ir.threw THEN ir.error ELSE NoError)

\* the async body of resolveType, from the await it waits at to the next one;
\* registryGateway, mutationsGateway and inputGateway keep the error
\* introspectType raised inside the awaited call, for the record
Step(pr, p, config, resp) ==
  CASE pr.stage = "registry" ->
         [OnRegistryResponse(pr, config, resp)
            EXCEPT !.registryGateway =
              LET g == introspectType(pr.awaiting, config, resp)
              IN IF g.threw THEN g.error ELSE NoError]
    [] pr.stage = "mutations" ->
         [OnDiscoverMutations(pr, discoverMutations(pr.typeName, config, resp))
            EXCEPT !.mutationsGateway =
              LET g == introspectType(MutationTypeName, config, resp)
              IN IF g.threw THEN g.error ELSE NoError]
    [] pr.stage = "input" ->
         [OnBuildInputRegistry(pr, p, buildInputRegistry(pr.typeName, config, resp))
            EXCEPT !.inputGateway =
              LET g == introspectType(InputTypeNameOf(pr.typeName), config, resp)
              IN IF g.threw THEN g.error ELSE NoError]

\* for (const m of mutationList) mutations.set(m.operation, m.mutationName)
RECURSIVE MutationsOfList(_, _)
MutationsOfList(map, list) ==
  IF list = <<>> THEN map
  ELSE MutationsOfList([op \in DOMAIN map \cup {Head(list).operation} |->
                          IF op = Head(list).operation THEN Head(list).mutationName ELSE map[op]],
                       Tail(list))

defineDriftType(options) ==
  LET resolvedInputFields ==
        IF "inputFields" \in DOMAIN options THEN options.inputFields ELSE options.fields
  IN [typeName |-> options.typeName,
      fields |-> options.fields,
      mutations |-> IF "mutations" \in DOMAIN options
                    THEN MutationsOfList(EmptyMap, options.mutations) ELSE EmptyMap,
      inputFields |-> resolvedInputFields,
      editableFields |-> IF "editableFields" \in DOMAIN options THEN options.editableFields
                         ELSE getEditableFields(options.fields, resolvedInputFields)]

(***************************************************************************)
(* The schema the transport serves, and the inputs of the drift client     *)
(***************************************************************************)
MaxCalls == 2

Clients == {"c1", "c2"}
OrderName == Str("Order")
UserName == Str("User")
TypeNames == {OrderName, UserName}

Config == [endpoint |-> "/graphql"]

IField(n, t) == [name |-> n, type |-> t]

OrderType ==
  [name |-> OrderName,
   fields |-> <<IField(SegId, NonNullT(ScalarT("ID"))),
                IField(Str("status"), NonNullT(EnumT("OrderStatus", <<"PENDING", "SHIPPED">>))),
                IField(Str("total"), ScalarT("Float")),
                IField(<<"shipping", "Address">>, ObjectT("Address")),
                IField(Str("secret"), ScalarT("JSON"))>>]

AddressType ==
  [name |-> Str("Address"),
   fields |-> <<IField(SegId, ScalarT("ID")),
                IField(Str("city"), NonNullT(ScalarT("String")))>>]

UserType ==
  [name |-> UserName,
   fields |-> <<IField(SegId, NonNullT(ScalarT("ID"))),
                IField(Str("name"), NonNullT(ScalarT("String")))>>]

UpdateOrderInputType ==
  [name |-> InputTypeNameOf(OrderName),
   fields |-> <<IField(<<"shipping", "Address", "City">>, ScalarT("String")),
                IField(Str("status"), EnumT("OrderStatus", <<"PENDING", "SHIPPED">>)),
                IField(Str("note"), ScalarT("String"))>>]

MutationType ==
  [name |-> MutationTypeName,
   fields |-> <<IField(MutationNameOf("update", OrderName), ObjectT("Order")),
                IField(MutationNameOf("create", OrderName), ObjectT("Order")),
                IField(MutationNameOf("delete", UserName), ObjectT("User"))>>]

SchemaTypes == {OrderType, AddressType, UserType, UpdateOrderInputType, MutationType}
Schema == [n \in {t.name : t \in SchemaTypes} |-> CHOOSE t \in SchemaTypes : t.name = n]

\* what the transport may answer to the introspection of a type name: a
\* failed status, a GraphQL errors list, no such type, or the type
Responses(name) ==
  {[ok |-> FALSE, status |-> 500],
   [ok |-> TRUE, errors |-> <<"Introspection disabled">>],
   [ok |-> TRUE, errors |-> <<>>, data |-> [type |-> Null]]}
  \cup (IF name \in DOMAIN Schema
          THEN {[ok |-> TRUE, errors |-> <<>>, data |-> [type |-> Schema[name]]]}
        ELSE {})

\* the registries of the schema, as the CLI would generate them
OrderFields ==
  buildRegistry(OrderType, [nestedTypes |-> [n \in {AddressType.name} |-> AddressType]]).fields
OrderInputFields == buildRegistry(UpdateOrderInputType, [maxDepth |-> 1]).fields

StaticOptions ==
  {[typeName |-> OrderName, fields |-> OrderFields],
   [typeName |-> OrderName, fields |-> OrderFields, inputFields |-> OrderInputFields],
   [typeName |-> OrderName, fields |-> OrderFields, inputFields |-> <<>>],
   [typeName |-> OrderName, fields |-> OrderFields, inputFields |-> OrderInputFields,
    editableFields |-> <<OrderFields[1]>>],
   [typeName |-> OrderName, fields |-> OrderFields,
    mutations |-> <<[operation |-> "update", mutationName |-> MutationNameOf("update", OrderName),
                     inputTypeName |-> InputTypeNameOf(OrderName)]>>]}

(***************************************************************************)
(* cli/index.ts: generate against an endpoint that serves the schema, and  *)
(* the defineDriftType call of the module it writes                        *)
(***************************************************************************)
\* the answer of an endpoint that serves the schema without failures
SchemaResponse(name) ==
  [ok |-> TRUE, errors |-> <<>>,
   data |-> [type |-> IF name \in DOMAIN Schema THEN Schema[name] ELSE Null]]

\* await buildRegistryAsync(typeName, config): every awaited introspection
\* answered by the schema; raised when a type is not found
RECURSIVE AsyncAwaitAll(_, _)
AsyncAwaitAll(run, config) ==
  IF run.await = <<>> THEN Built(run.fields)
  ELSE LET r == introspectType(run.await, config, SchemaResponse(run.await))
       IN IF r.threw THEN Raised
          ELSE AsyncAwaitAll(AsyncResume(run.stack, r.value, ScalarMapOf(config),
                                         MaxDepthOf(config)), config)

\* [...mutations.entries()].map(([op, name]) => ({operation, mutationName, inputTypeName}))
MutationInfoOf(typeName, mutations) ==
  LET ops == SelectSeq(Operations, LAMBDA op : op \in DOMAIN mutations)
  IN [i \in 1 .. Len(ops) |->
        [operation |-> ops[i], mutationName |-> mutations[ops[i]],
         \* getInputTypeName(typeName, op)
         inputTypeName |-> capitalize(<<ops[i]>>) \o typeName \o <<"Input">>]]

generateFromEndpoint(typeName, config) ==
  LET built == AsyncAwaitAll([await |-> typeName, stack |-> <<>>, fields |-> <<>>], config)
      dm == discoverMutations(typeName, config, SchemaResponse(MutationTypeName))
      ir == buildInputRegistry(typeName, config, SchemaResponse(InputTypeNameOf(typeName)))
  IN [fields |-> built.fields,
      mutations |-> IF dm.threw THEN EmptyMap ELSE dm.value,
      inputFields |-> IF ir.threw THEN <<>> ELSE ir.value,
      editableFields |-> IF ir.threw THEN <<>> ELSE getEditableFields(built.fields, ir.value)]

\* the options of the defineDriftType call buildOutputFile writes: inputFields
\* and editableFields are passed only when inputFields.length > 0
buildOutputFile(typeName, fs, inputFields, editableFields, mutationInfo) ==
  [typeName |-> typeName, fields |-> fs, mutations |-> mutationInfo]
  @@ (IF Len(inputFields) > 0
        THEN [inputFields |-> inputFields, editableFields |-> editableFields]
      ELSE [k \in {} |-> 0])

FlattenIdle ==
  /\ fields = <<>> /\ data = Undefined /\ row = Undefined
  /\ flatData = Undefined /\ out = Undefined /\ pc = "idle"

DriftIdle ==
  /\ typeCache = [c \in Clients |-> [t \in TypeNames |-> 0]]
  /\ promises = <<>>
  /\ calls = {}
  /\ numCalls = 0
  /\ started = [c \in Clients |-> [t \in TypeNames |-> 0]]
  /\ defined = {}

\* createDrift(config) for every client: empty caches
InitDrift ==
  DriftIdle /\ FlattenIdle /\ RegistryIdle /\ QueryIdle /\ IntrospectionIdle /\ ClientIdle

\* client.type(typeName), that is resolveType(typeName)
CallType(c, typeName) ==
  /\ numCalls < MaxCalls
  /\ numCalls' = numCalls + 1
  /\ LET cached == CacheGet(typeCache, c, typeName)
         p == Len(promises) + 1
     IN IF cached # 0
          THEN /\ calls' = calls \cup {[client |-> c, typeName |-> typeName, promise |-> cached,
                                         fresh |-> FALSE, found |-> promises[cached].state]}
               /\ UNCHANGED <<typeCache, promises, started>>
        ELSE /\ promises' = Append(promises, NewPromise(c, typeName))
             /\ typeCache' = CacheSet(typeCache, c, typeName, p)
             /\ started' = [started EXCEPT ![c][typeName] = @ + 1]
             /\ calls' = calls \cup {[client |-> c, typeName |-> typeName, promise |-> p,
                                       fresh |-> TRUE, found |-> "none"]}
  /\ UNCHANGED <<defined>>
  /\ UNCHANGED <<flatVars, regVars, queryVars, introVars, clientVars>>

\* the transport answers the request promise p waits for, and the async body
\* of resolveType runs on to its next await or to its end
Respond(p) ==
  /\ p \in 1 .. Len(promises)
  /\ promises[p].state = "pending"
  /\ \E resp \in Responses(promises[p].awaiting) :
       promises' = [promises EXCEPT ![p] = Step(promises[p], p, Config, resp)]
  /\ UNCHANGED <<typeCache, calls, numCalls, started, defined>>
  /\ UNCHANGED <<flatVars, regVars, queryVars, introVars, clientVars>>

\* defineDriftType(options)
DefineDriftType ==
  /\ numCalls < MaxCalls
  /\ numCalls' = numCalls + 1
  /\ \E options \in StaticOptions :
       defined' = {[options |-> options, type |-> defineDriftType(options)]}
  /\ UNCHANGED <<typeCache, promises, calls, started>>
  /\ UNCHANGED <<flatVars, regVars, queryVars, introVars, clientVars>>

\* gql-drift generate for typeName, and the generated module is loaded
Generate(typeName) ==
  /\ numCalls < MaxCalls
  /\ numCalls' = numCalls + 1
  /\ LET result == generateFromEndpoint(typeName, Config)
         options == buildOutputFile(typeName, result.fields, result.inputFields,
                                    result.editableFields,
                                    MutationInfoOf(typeName, result.mutations))
     IN defined' = {[options |-> options, type |-> defineDriftType(options),
                     generated |-> TRUE]}
  /\ UNCHANGED <<typeCache, promises, calls, started>>
  /\ UNCHANGED <<flatVars, regVars, queryVars, introVars, clientVars>>

NextDrift ==
  \/ \E c \in Clients, typeName \in TypeNames : CallType(c, typeName)
  \/ \E p \in 1 .. MaxCalls : Respond(p)
  \/ DefineDriftType
  \/ \E typeName \in TypeNames : Generate(typeName)

SpecDrift == InitDrift /\ [][NextDrift]_vars

(***************************************************************************)
(* Inputs of the flatten / unflatten runs                                  *)
(***************************************************************************)
MaxFields == 2

Keys == {Str("k1"), Str("k2"), SegId, SegCtor}
Paths == {<<SegA>>, <<SegA, SegB>>, <<SegA, SegC>>, <<SegCtor>>, <<SegCtor, SegB>>, <<SegId>>}
FieldDefs == [key : Keys, graphqlPath : Paths]

RECURSIVE SeqsUpTo(_, _)
SeqsUpTo(S, n) ==
  IF n = 0 THEN {<<>>}
  ELSE LET shorter == SeqsUpTo(S, n - 1)
       IN shorter \cup {Append(s, e) : s \in {q \in shorter : Len(q) = n - 1}, e \in S}

FieldLists == SeqsUpTo(FieldDefs, MaxFields)

\* nested children: objects over b and c
FullChild == Obj([n \in {<<SegB>>, <<SegC>>} |-> IF n = <<SegB>> THEN Prim("v1") ELSE Prim("v2")])
OnlyB == Obj([n \in {<<SegB>>} |-> Prim("v1")])
ChildObjs == {Obj(EmptyProps), Obj([n \in {<<SegB>>} |-> Null]), FullChild}
IdVals == {Prim("i1")}

\* what a top-level name may hold; Undefined stands for "no such property"
TopVals(name) ==
  IF name = <<SegA>> THEN {Undefined, Null, Prim("v0")} \cup ChildObjs
  ELSE IF name = <<SegCtor>> THEN {Undefined, OnlyB}
  ELSE {Undefined} \cup IdVals

TopNames == {<<SegA>>, <<SegCtor>>, IdName}

\* the nested objects: each top-level name absent or holding one of its values
DataSet ==
  { Obj([n \in {m \in TopNames : c[m] # Undefined} |-> c[n]]) :
      c \in {g \in [TopNames -> UNION {TopVals(m) : m \in TopNames}] :
               \A m \in TopNames : g[m] \in TopVals(m)} }

\* a sparse row: the row restricted to some of its keys
Restrict(r, S) == Obj([n \in S |-> r.props[n]])

InitFlatten ==
  /\ DriftIdle /\ RegistryIdle /\ QueryIdle /\ IntrospectionIdle /\ ClientIdle
  /\ fields \in FieldLists
  /\ data \in DataSet
  /\ row = Undefined
  /\ flatData = Undefined
  /\ out = Undefined
  /\ pc = "start"

\* row = flatten(data, fields)
Flatten ==
  /\ pc = "start"
  /\ row' = flatten(data, fields)
  /\ pc' = "flat"
  /\ UNCHANGED <<fields, data, flatData, out>>
  /\ UNCHANGED <<driftVars, regVars, queryVars, introVars, clientVars>>

\* out = unflatten(flatten(data, fields), fields)
UnflattenRow ==
  /\ pc = "flat"
  /\ flatData' = row
  /\ out' = unflatten(row, fields)
  /\ pc' = "roundtrip"
  /\ UNCHANGED <<fields, data, row>>
  /\ UNCHANGED <<driftVars, regVars, queryVars, introVars, clientVars>>

\* out = unflatten(sparse, fields) for a row holding only some of the keys
UnflattenSparse ==
  /\ pc = "flat"
  /\ \E S \in SUBSET DOMAIN row.props :
       /\ S # DOMAIN row.props
       /\ flatData' = Restrict(row, S)
       /\ out' = unflatten(Restrict(row, S), fields)
  /\ pc' = "sparse"
  /\ UNCHANGED <<fields, data, row>>
  /\ UNCHANGED <<driftVars, regVars, queryVars, introVars, clientVars>>

NextFlatten == Flatten \/ UnflattenRow \/ UnflattenSparse

SpecFlatten == InitFlatten /\ [][NextFlatten]_vars

(***************************************************************************)
(* Properties of flatten / unflatten                                       *)
(***************************************************************************)
Indices(fs) == 1 .. Len(fs)
DistinctKeys(fs) == \A i, j \in Indices(fs) : i # j => fs[i].key # fs[j].key
DistinctPaths(fs) == \A i, j \in Indices(fs) : i # j => fs[i].graphqlPath # fs[j].graphqlPath

\* the path is spelled out in x by own properties, one object per segment
RECURSIVE OwnPath(_, _)
OwnPath(x, path) ==
  IF path = <<>> THEN TRUE
  ELSE /\ HasOwn(x, <<Head(path)>>)
       /\ OwnPath(x.props[<<Head(path)>>], Tail(path))

\* the value x holds at an own path
RECURSIVE OwnValue(_, _)
OwnValue(x, path) ==
  IF path = <<>> THEN x ELSE OwnValue(x.props[<<Head(path)>>], Tail(path))

PathsOf(fs) == {fs[i].graphqlPath : i \in Indices(fs)}

\* x holds every path of the list and nothing else (id aside)
ContainsExactly(x, fs) ==
  /\ \A p \in PathsOf(fs) : OwnPath(x, p)
  /\ \A n \in DOMAIN x.props :
       \/ n = IdName
       \/ n \in PathsOf(fs)
       \/ /\ x.props[n].t = "object"
          /\ DOMAIN x.props[n].props # {}
          /\ \A c \in DOMAIN x.props[n].props : n \o c \in PathsOf(fs)

\* x restricted to the top-level names the list covers
Covered(x, fs) ==
  Obj([n \in {m \in DOMAIN x.props : \E p \in PathsOf(fs) : <<Head(p)>> = m} |-> x.props[n]])

\* C1: for distinct keys and distinct paths of at most one dot, and x holding
\* exactly the paths of the list, unflatten(flatten(x, fields), fields) is x
\* restricted to the paths the list covers.
C1_RoundTripOneLevel ==
  (pc = "roundtrip" /\ DistinctKeys(fields) /\ DistinctPaths(fields)
     /\ ContainsExactly(data, fields))
  => out = Covered(data, fields)

\* the last field that writes a key decides the row's value for it
LastWriter(fs, i) == \A j \in Indices(fs) : j > i => fs[j].key # fs[i].key

NoKeyId(fs) == \A i \in Indices(fs) : fs[i].key # SegId
NoPathId(fs) == \A i \in Indices(fs) : Head(fs[i].graphqlPath) # SegId

C3_SparseUnflattenOwnKeys ==
  (pc \in {"roundtrip", "sparse"} /\ out.t = "object")
  => /\ \A n \in DOMAIN out.props :
          \E i \in Indices(fields) :
            /\ HasOwn(flatData, <<fields[i].key>>)
            /\ <<Head(fields[i].graphqlPath)>> = n
     /\ DOMAIN flatData.props = {} => out = Obj(EmptyProps)

\* some proper prefix of the path leads to null or undefined
NullParent(x, path) ==
  \E k \in 1 .. Len(path) - 1 : IsNullish(Walk(x, SubSeq(path, 1, k)))

\* C4: flatten never raises; a null or undefined parent gives undefined, an
\* explicitly null leaf stays null, a field missing from data gives undefined.
C4_FlattenNullParents ==
  pc # "start"
  => /\ row.t = "object"
     /\ \A i \in Indices(fields) :
          LET f == fields[i]
              v == row.props[<<f.key>>]
          IN LastWriter(fields, i)
             => /\ NullParent(data, f.graphqlPath) => v = Undefined
                /\ (OwnPath(data, f.graphqlPath) /\ OwnValue(data, f.graphqlPath) = Null)
                     => v = Null
                /\ ~HasOwn(data, <<Head(f.graphqlPath)>>) => v = Undefined

(***************************************************************************)
(* Properties of the drift client                                          *)
(***************************************************************************)
Promises == 1 .. Len(promises)

\* the elements of fs whose key occurs among the keys of inputs, in the order of fs
KeyIntersection(fs, inputs) ==
  SelectSeq(fs, LAMBDA f : \E i \in 1 .. Len(inputs) : inputs[i].key = f.key)

\* C5: in every DriftType that type(T) resolves with, and in every DriftType
\* defineDriftType returns when no editableFields override is passed,
\* editableFields is the elements of fields whose key occurs among the keys of
\* inputFields, in the order of fields.
C5_EditableIsKeyIntersection ==
  /\ \A p \in Promises :
       promises[p].state = "fulfilled"
       => promises[p].value.editableFields
            = KeyIntersection(promises[p].value.fields, promises[p].value.inputFields)
  /\ \A d \in defined :
       "editableFields" \notin DOMAIN d.options
       => d.type.editableFields = KeyIntersection(d.type.fields, d.type.inputFields)

C5_Witness ==
  /\ \E p \in Promises :
       /\ promises[p].state = "fulfilled"
       /\ Len(promises[p].value.editableFields) = 2
       /\ Len(promises[p].value.fields) = 3
       /\ Len(promises[p].value.inputFields) = 3
  /\ \E d \in defined :
       /\ DOMAIN d.options = {"typeName", "fields", "inputFields"}
       /\ Len(d.type.editableFields) = 2

\* C6: a failure is not cached: a call type(T) never gets a promise that had
\* already rejected when the call was made; it starts a new resolution.
C6_FailureNotCached ==
  \A k \in calls : k.found # "rejected"

\* C7: per client and type name the resolution is started at most once, every
\* call for the same client and type name gets the same promise (hence the
\* identical DriftType object), and no promise serves two clients or two type
\* names.
C7_ResolvedAtMostOnce ==
  /\ \A c \in Clients, t \in TypeNames : started[c][t] <= 1
  /\ \A k1, k2 \in calls :
       /\ (k1.client = k2.client /\ k1.typeName = k2.typeName)
            => /\ k1.promise = k2.promise
               /\ promises[k1.promise].state = "fulfilled"
                    => promises[k1.promise].value.obj = promises[k2.promise].value.obj
       /\ k1.promise = k2.promise
            => (k1.client = k2.client /\ k1.typeName = k2.typeName)
  /\ \A c \in Clients, t \in TypeNames :
       typeCache[c][t] # 0
       => /\ promises[typeCache[c][t]].client = c
          /\ promises[typeCache[c][t]].typeName = t

C7_Witness ==
  \E k1, k2 \in calls :
    /\ k1.fresh /\ ~k2.fresh /\ k2.found = "pending"
    /\ k1.promise = k2.promise
    /\ promises[k1.promise].state = "fulfilled"

\* C8 as stated: a failure to introspect the Mutation root makes type(T)
\* reject, so no resolved DriftType has seen one.
C8_MutationFailureSurfaced ==
  \A p \in Promises :
    promises[p].state = "fulfilled" => promises[p].mutationsGateway = NoError

\* C8 amended: discoverMutations rejects when the Mutation root cannot be
\* introspected, type(T) catches that and goes on with an empty mutations map;
\* type(T) rejects only with the error of a failed buildRegistryAsync.
C8_OnlyRegistryFailureRejects ==
  \A p \in Promises :
    /\ promises[p].state = "rejected"
         => /\ promises[p].registryError # NoError
            /\ promises[p].error = promises[p].registryError
            /\ promises[p].mutationsGateway = NoError
            /\ promises[p].inputGateway = NoError
    /\ promises[p].mutationsGateway # NoError
         => /\ promises[p].mutationsError = MutationDiscoveryError
            /\ promises[p].state # "rejected"
            /\ promises[p].mutations = EmptyMap

C8_Witness ==
  \E p \in Promises :
    /\ promises[p].state = "fulfilled"
    /\ promises[p].mutationsGateway # NoError
    /\ promises[p].inputGateway = NoError
    /\ DOMAIN promises[p].value.mutations = {}
    /\ promises[p].value.inputFields # <<>>

\* the registry of a type of the schema, every nested type at hand
FullRegistry(typeName) ==
  buildRegistry(Schema[typeName], [nestedTypes |-> Schema]).fields

\* C9: once T and its nested types are introspected, type(T) does not reject
\* and waits only for the transport; it resolves with an empty mutations map
\* when the Mutation root could not be introspected, with empty inputFields and
\* editableFields when Update<T>Input could not, and with the full registry of
\* T as fields.
C9_ResolvesWithFallbacks ==
  \A p \in Promises :
    /\ promises[p].stage \in {"mutations", "input"}
         => promises[p].state = "pending" /\ promises[p].awaiting # <<>>
    /\ (promises[p].stage = "done" /\ promises[p].registryGateway = NoError)
         => promises[p].state = "fulfilled"
    /\ promises[p].state = "fulfilled"
         => /\ promises[p].value.fields = FullRegistry(promises[p].typeName)
            /\ promises[p].mutationsGateway # NoError
                 => DOMAIN promises[p].value.mutations = {}
            /\ promises[p].inputGateway # NoError
                 => /\ promises[p].value.inputFields = <<>>
                    /\ promises[p].value.editableFields = <<>>

C9_Witness ==
  \E p \in Promises :
    /\ promises[p].state = "fulfilled"
    /\ promises[p].typeName = OrderName
    /\ promises[p].mutationsGateway # NoError
    /\ promises[p].inputGateway # NoError
    /\ Len(promises[p].value.fields) = 3
    /\ promises[p].value.editableFields = <<>>

IsTransportError(e) == e.message \in {"GraphQL request failed", "joined"}

\* C10 as stated: when the transport answers with a failed status or with
\* GraphQL errors, buildRegistryAsync, discoverMutations and buildInputRegistry
\* reject with the error of the gateway.
C10_GatewayErrorUnmodified ==
  \A p \in Promises :
    /\ IsTransportError(promises[p].registryGateway)
         => promises[p].registryError = promises[p].registryGateway
    /\ IsTransportError(promises[p].mutationsGateway)
         => promises[p].mutationsError = promises[p].mutationsGateway
    /\ IsTransportError(promises[p].inputGateway)
         => promises[p].inputError = promises[p].inputGateway

\* C10 amended: only buildRegistryAsync passes the error of the gateway on;
\* discoverMutations and buildInputRegistry replace every failure of the
\* gateway by their own fixed error.
C10_OnlyRegistryPassesGatewayError ==
  \A p \in Promises :
    /\ promises[p].registryGateway # NoError
         => /\ promises[p].registryError = promises[p].registryGateway
            /\ promises[p].registryError.message
                 \in {"GraphQL request failed", "joined", "Type not found in schema"}
    /\ promises[p].mutationsGateway # NoError
         => promises[p].mutationsError = MutationDiscoveryError
    /\ promises[p].inputGateway # NoError
         => promises[p].inputError = InputTypeNotFound(InputTypeNameOf(promises[p].typeName))

C10_Witness ==
  /\ \E p \in Promises :
       /\ promises[p].mutationsGateway = HttpError(500)
       /\ promises[p].mutationsError = MutationDiscoveryError
       /\ IsTransportError(promises[p].inputGateway)
       /\ promises[p].inputError.message = "Input type not found in schema"
  /\ \E p \in Promises :
       /\ promises[p].state = "rejected"
       /\ IsTransportError(promises[p].error)

(***************************************************************************)
(* The registry builder on its own: buildRegistry and buildRegistryAsync   *)
(* on the same type and config                                             *)
(***************************************************************************)
MaxDepthBound == 2

NodeName == Str("Node")
ShipmentName == Str("Shipment")
WeirdName == Str("Weird")
AuthorName == Str("Author")
BookName == Str("Book")

\* a type that nests itself
NodeType ==
  [name |-> NodeName,
   fields |-> <<IField(SegId, NonNullT(ScalarT("ID"))),
                IField(Str("name"), ScalarT("String")),
                IField(Str("child"), NonNullT(ObjectT("Node")))>>]

\* a type with a field named as the key of a nested field
ShipmentType ==
  [name |-> ShipmentName,
   fields |-> <<IField(<<"shipping", "Address">>, ObjectT("Address")),
                IField(<<"shipping", "Address", "City">>, ScalarT("String"))>>]

\* a type whose fields have types named as a member of Object.prototype
WeirdType ==
  [name |-> WeirdName,
   fields |-> <<IField(Str("x"), ScalarT("constructor")),
                IField(Str("y"), ObjectT("constructor")),
                IField(Str("z"), ListT(ScalarT("String")))>>]

\* two types that nest each other, the first through two fields
AuthorType ==
  [name |-> AuthorName,
   fields |-> <<IField(SegId, NonNullT(ScalarT("ID"))),
                IField(Str("first"), ObjectT("Book")),
                IField(Str("name"), ScalarT("String")),
                IField(Str("last"), ObjectT("Book"))>>]

BookType ==
  [name |-> BookName,
   fields |-> <<IField(Str("title"), NonNullT(ScalarT("String"))),
                IField(Str("author"), ObjectT("Author"))>>]

RegRootTypes == {OrderType, NodeType, ShipmentType, WeirdType, AuthorType}
RegSchemaTypes == RegRootTypes \cup {AddressType, BookType}
RegSchema == [n \in {t.name : t \in RegSchemaTypes} |-> CHOOSE t \in RegSchemaTypes : t.name = n]

\* the nestedTypes a caller may supply
NestedTypeMaps ==
  {[n \in S |-> RegSchema[n]] : S \in SUBSET {AddressType.name, NodeName}}
  \cup {[n \in {AuthorName, BookName} |-> RegSchema[n]]}

NoOptions == [k \in {} |-> 0]

\* BuildRegistryConfig: maxDepth, scalarMap and nestedTypes, each given or not
RegConfigs ==
  {d @@ m @@ n :
     d \in {NoOptions} \cup {[maxDepth |-> k] : k \in 0 .. MaxDepthBound},
     m \in {NoOptions, [scalarMap |-> [k \in {Str("JSON")} |-> "string"]]},
     n \in {NoOptions} \cup {[nestedTypes |-> t] : t \in NestedTypeMaps \ {[x \in {} |-> 0]}}}

\* what the transport may answer to the introspection of a type name
RegResponses(name) ==
  {[ok |-> FALSE, status |-> 500],
   [ok |-> TRUE, errors |-> <<>>, data |-> [type |-> Null]]}
  \cup (IF name \in DOMAIN RegSchema
          THEN {[ok |-> TRUE, errors |-> <<>>, data |-> [type |-> RegSchema[name]]]}
        ELSE {})

\* buildRegistryAsync(typeName, config) up to its first await; requests keeps
\* the type names asked of the gateway and at the path of the field each
\* request is for (the empty path for the root type)
AsyncCall(typeName) ==
  [state |-> "pending", awaiting |-> typeName, stack |-> <<>>, fields |-> <<>>,
   error |-> NoError, requests |-> <<typeName>>, at |-> <<<<>>>>, notFound |-> <<>>]

\* a buildRegistryAsync that goes on without the nested type it did not find
AsyncStepSkipMissing(st, config, resp) ==
  LET r == introspectType(st.awaiting, config, resp)
      found == IF r.threw THEN [name |-> st.awaiting, fields |-> <<>>] ELSE r.value
      run == AsyncResume(st.stack, found, ScalarMapOf(config), MaxDepthOf(config))
      seen == [st EXCEPT !.notFound =
                 IF r.threw /\ st.stack # <<>> THEN Append(@, st.awaiting) ELSE @]
  IN IF r.threw /\ st.stack = <<>>
       THEN [seen EXCEPT !.state = "rejected", !.error = r.error, !.awaiting = <<>>]
     ELSE IF run.await # <<>>
       THEN [seen EXCEPT !.awaiting = run.await, !.stack = run.stack,
                         !.requests = Append(@, run.await),
                         !.at = Append(@, run.stack[Len(run.stack)].pathPrefix)]
     ELSE [seen EXCEPT !.state = "fulfilled", !.fields = run.fields, !.awaiting = <<>>,
                       !.stack = <<>>]

\* a buildRegistryAsync that never settles once the gateway has failed
AsyncStepHang(st, config, resp) ==
  LET r == introspectType(st.awaiting, config, resp)
      run == AsyncResume(st.stack, r.value, ScalarMapOf(config), MaxDepthOf(config))
  IN IF r.threw THEN [st EXCEPT !.awaiting = <<>>, !.stack = <<>>]
     ELSE IF run.await # <<>>
       THEN [st EXCEPT !.awaiting = run.await, !.stack = run.stack,
                       !.requests = Append(@, run.await),
                       !.at = Append(@, run.stack[Len(run.stack)].pathPrefix)]
     ELSE [st EXCEPT !.state = "fulfilled", !.fields = run.fields, !.awaiting = <<>>,
                     !.stack = <<>>]

\* buildRegistryAsync from the await it waits at to the next one or to its end;
\* notFound keeps the nested type names the gateway found no type for
AsyncStep(st, config, resp) ==
  LET r == introspectType(st.awaiting, config, resp)
      run == AsyncResume(st.stack, r.value, ScalarMapOf(config), MaxDepthOf(config))
      seen == [st EXCEPT !.notFound =
                 IF r.threw /\ st.stack # <<>> /\ r.error = TypeNotFound(st.awaiting)
                   THEN Append(@, st.awaiting) ELSE @]
  IN IF r.threw
       THEN [seen EXCEPT !.state = "rejected", !.error = r.error, !.awaiting = <<>>,
                         !.stack = <<>>]
     ELSE IF run.await # <<>>
       THEN [seen EXCEPT !.awaiting = run.await, !.stack = run.stack,
                         !.requests = Append(@, run.await),
                         !.at = Append(@, run.stack[Len(run.stack)].pathPrefix)]
     ELSE [seen EXCEPT !.state = "fulfilled", !.fields = run.fields, !.awaiting = <<>>,
                       !.stack = <<>>]

InitRegistry ==
  /\ regType \in RegRootTypes
  /\ regConfig \in RegConfigs
  /\ registry = NotBuilt
  /\ asyncReg = NotCalled
  /\ FlattenIdle /\ DriftIdle /\ QueryIdle /\ IntrospectionIdle /\ ClientIdle

\* buildRegistry(regType, regConfig)
BuildRegistry ==
  /\ registry = NotBuilt
  /\ registry' = buildRegistry(regType, regConfig)
  /\ UNCHANGED <<regType, regConfig, asyncReg>>
  /\ UNCHANGED <<flatVars, driftVars, queryVars, introVars, clientVars>>

\* buildRegistryAsync(regType.name, regConfig) is called
BuildRegistryAsync ==
  /\ asyncReg = NotCalled
  /\ asyncReg' = AsyncCall(regType.name)
  /\ UNCHANGED <<regType, regConfig, registry>>
  /\ UNCHANGED <<flatVars, driftVars, queryVars, introVars, clientVars>>

\* the transport answers the introspection buildRegistryAsync waits for
RegistryRespond ==
  /\ asyncReg.state = "pending"
  /\ \E resp \in RegResponses(asyncReg.awaiting) :
       asyncReg' = AsyncStep(asyncReg, regConfig, resp)
  /\ UNCHANGED <<regType, regConfig, registry>>
  /\ UNCHANGED <<flatVars, driftVars, queryVars, introVars, clientVars>>

NextRegistry == BuildRegistry \/ BuildRegistryAsync \/ RegistryRespond

SpecRegistry == InitRegistry /\ [][NextRegistry]_vars

\* every request handed to the transport is answered
SpecRegistryFair == SpecRegistry /\ WF_vars(RegistryRespond)

(***************************************************************************)
(* Properties of the registry builder                                      *)
(***************************************************************************)
SyncDone == registry # NotBuilt /\ ~registry.raised
AsyncDone == asyncReg.state = "fulfilled"

LastSegment(path) == path[Len(path)]
Dots(path) == Len(path) - 1

\* C11: no field of a registry that buildRegistry or buildRegistryAsync
\* returned has a graphqlPath whose last segment is id.
C11_NoIdField ==
  /\ SyncDone => \A i \in 1 .. Len(registry.fields) :
                   LastSegment(registry.fields[i].graphqlPath) # SegId
  /\ AsyncDone => \A i \in 1 .. Len(asyncReg.fields) :
                    LastSegment(asyncReg.fields[i].graphqlPath) # SegId

C11_Witness ==
  /\ regType = OrderType
  /\ SyncDone
  /\ \E i \in 1 .. Len(registry.fields) : Dots(registry.fields[i].graphqlPath) = 1
  /\ AsyncDone
  /\ \E i \in 1 .. Len(asyncReg.fields) : Dots(asyncReg.fields[i].graphqlPath) = 1

\* the fields C12 expects of a field list: id fields, scalars that are no key
\* of the scalar map, objects without supplied metadata and objects beyond the
\* depth budget dropped, every other field once and in place
RECURSIVE Expected(_, _, _, _, _, _, _)
Expected(todo, scalarMap, nestedTypes, maxDepth, depth, prefix, pathPrefix) ==
  IF todo = <<>> THEN <<>>
  ELSE
    LET field == Head(todo)
        u == unwrapType(field.type)
        path == IF pathPrefix = <<>> THEN <<field.name>> ELSE Append(pathPrefix, field.name)
        key == IF prefix = <<>> THEN field.name ELSE prefix \o capitalize(field.name)
        here ==
          IF field.name = SegId THEN <<>>
          ELSE IF u.kind = "ENUM"
            THEN <<[key |-> key, graphqlPath |-> path, type |-> "enum"]>>
          ELSE IF u.kind = "SCALAR"
            THEN IF u.name \in DOMAIN scalarMap
                   THEN <<[key |-> key, graphqlPath |-> path, type |-> scalarMap[u.name]]>>
                 ELSE <<>>
          ELSE IF u.kind = "OBJECT" /\ depth < maxDepth /\ u.name \in DOMAIN nestedTypes
            THEN Expected(nestedTypes[u.name].fields, scalarMap, nestedTypes, maxDepth,
                          depth + 1, key, path)
          ELSE <<>>
    IN here \o Expected(Tail(todo), scalarMap, nestedTypes, maxDepth, depth, prefix, pathPrefix)

ConfigDepth == IF "maxDepth" \in DOMAIN regConfig THEN regConfig.maxDepth ELSE DefaultMaxDepth
ConfigNested ==
  IF "nestedTypes" \in DOMAIN regConfig THEN regConfig.nestedTypes ELSE [n \in {} |-> 0]
ConfigScalars ==
  [n \in DOMAIN DEFAULT_SCALAR_MAP
        \cup (IF "scalarMap" \in DOMAIN regConfig THEN DOMAIN regConfig.scalarMap ELSE {}) |->
     IF "scalarMap" \in DOMAIN regConfig /\ n \in DOMAIN regConfig.scalarMap
       THEN regConfig.scalarMap[n] ELSE DEFAULT_SCALAR_MAP[n]]

Shape(fs) ==
  [i \in 1 .. Len(fs) |->
     [key |-> fs[i].key, graphqlPath |-> fs[i].graphqlPath, type |-> fs[i].type]]

\* C12: buildRegistry never raises, and returns exactly the expected fields:
\* unmapped scalars, objects without metadata and objects beyond the depth
\* budget dropped, every other field once, in order, nested fields in place.
C12_DropsSilently ==
  registry # NotBuilt
  => /\ ~registry.raised
     /\ Shape(registry.fields)
          = Expected(regType.fields, ConfigScalars, ConfigNested, ConfigDepth, 0, <<>>, <<>>)

\* C13: every field buildRegistry returns has at most maxDepth dots in its
\* graphqlPath; with maxDepth 0 no field of a nested object appears, with
\* maxDepth 1 the direct fields of a supplied nested object appear.
C13_DepthLimit ==
  SyncDone
  => /\ \A i \in 1 .. Len(registry.fields) :
          Dots(registry.fields[i].graphqlPath) <= ConfigDepth
     /\ ConfigDepth = 0
          => \A i \in 1 .. Len(registry.fields) : Dots(registry.fields[i].graphqlPath) = 0
     /\ ConfigDepth >= 1
          => \A k \in 1 .. Len(regType.fields) :
               LET f == regType.fields[k]
                   u == unwrapType(f.type)
               IN (f.name # SegId /\ u.kind = "OBJECT" /\ u.name \in DOMAIN ConfigNested)
                  => \A j \in 1 .. Len(ConfigNested[u.name].fields) :
                       LET g == ConfigNested[u.name].fields[j]
                       IN (g.name # SegId /\ unwrapType(g.type).kind = "SCALAR"
                           /\ unwrapType(g.type).name \in DOMAIN ConfigScalars)
                          => \E i \in 1 .. Len(registry.fields) :
                               registry.fields[i].graphqlPath = <<f.name, g.name>>

C13_Witness ==
  /\ SyncDone
  /\ regType = NodeType
  /\ ConfigDepth = 2
  /\ \E i \in 1 .. Len(registry.fields) : Dots(registry.fields[i].graphqlPath) = 2
  /\ \E i \in 1 .. Len(registry.fields) : Dots(registry.fields[i].graphqlPath) = 1

DistinctKeysIn(fs) == \A i, j \in 1 .. Len(fs) : fs[i].key = fs[j].key => i = j

\* C14: no two fields of a registry that buildRegistry or buildRegistryAsync
\* returned have the same key.
C14_UniqueKeys ==
  /\ SyncDone => DistinctKeysIn(registry.fields)
  /\ AsyncDone => DistinctKeysIn(asyncReg.fields)

\* C15: when every introspection of the call succeeded, buildRegistryAsync
\* returns the list buildRegistry returns for the same type, maxDepth and
\* scalar map with the types of the schema as nestedTypes.
C15_AsyncEqualsSync ==
  AsyncDone
  => LET sync == buildRegistry(regType,
                   [k \in (DOMAIN regConfig \ {"nestedTypes"}) \cup {"nestedTypes"} |->
                      IF k = "nestedTypes" THEN RegSchema ELSE regConfig[k]])
     IN ~sync.raised /\ asyncReg.fields = sync.fields

C15_Witness ==
  /\ AsyncDone
  /\ Len(asyncReg.requests) = 3
  /\ \E i \in 1 .. Len(asyncReg.fields) : Dots(asyncReg.fields[i].graphqlPath) = 2
  /\ "scalarMap" \in DOMAIN regConfig

\* C16 as stated: an OBJECT field whose type the gateway does not find is
\* skipped, the call does not reject.
C16_AsyncSkipsMissingNested ==
  (asyncReg # NotCalled /\ asyncReg.notFound # <<>>) => asyncReg.state # "rejected"

\* C16 amended: when the gateway does not find the type of an OBJECT field
\* within the depth budget, buildRegistryAsync rejects with the gateway's
\* "Type not found" error for that type name and returns no fields.
C16_AsyncRejectsOnMissingNested ==
  (asyncReg # NotCalled /\ asyncReg.notFound # <<>>)
  => /\ asyncReg.state = "rejected"
     /\ asyncReg.error = TypeNotFound(asyncReg.notFound[1])
     /\ Len(asyncReg.notFound) = 1
     /\ asyncReg.fields = <<>>

C16_Witness ==
  /\ asyncReg # NotCalled
  /\ asyncReg.notFound = <<AddressType.name>>
  /\ asyncReg.state = "rejected"
  /\ SyncDone
  /\ "nestedTypes" \notin DOMAIN regConfig
  /\ Len(registry.fields) > 0

(***************************************************************************)
(* core/query-builder.ts, core/mutation-builder.ts.  A built string is the *)
(* sequence of its tokens (white space separates tokens and is not kept):  *)
(* names, punctuation, $variables, and the caller's text kept as it is.  A *)
(* path is the sequence of its dot-free segments, as everywhere.           *)
(***************************************************************************)
Tok(s) == [tok |-> s]
Name(n) == [tok |-> "name", text |-> n]
Var(v) == [tok |-> "$", text |-> v]
Raw(text) == [tok |-> "raw", text |-> text]

\* the tokens of a dotted string
RECURSIVE PathTokens(_)
PathTokens(path) ==
  IF Len(path) <= 1 THEN <<Name(path[1])>>
  ELSE <<Name(Head(path)), Tok(".")>> \o PathTokens(Tail(path))

\* parts.join(sep), sep given as tokens
RECURSIVE Join(_, _)
Join(parts, sep) ==
  IF parts = <<>> THEN <<>>
  ELSE IF Len(parts) = 1 THEN parts[1]
  ELSE parts[1] \o sep \o Join(Tail(parts), sep)

\* a roots.push that leaves out a path it already holds
PushRootOnce(roots, path) ==
  IF \E i \in 1 .. Len(roots) : roots[i] = path THEN roots ELSE Append(roots, path)

\* roots.push(path)
PushRoot(roots, path) == Append(roots, path)

\* a grouping that opens a new group for every nested path
NestedAddAlwaysNew(nested, parent, child) ==
  Append(nested, [parent |-> parent, children |-> <<child>>])

\* if (!nested.has(parent)) nested.set(parent, []); nested.get(parent).push(child)
\* the Map is the sequence of its entries in insertion order
NestedAdd(nested, parent, child) ==
  IF \E i \in 1 .. Len(nested) : nested[i].parent = parent
    THEN [i \in 1 .. Len(nested) |->
            IF nested[i].parent = parent
              THEN [nested[i] EXCEPT !.children = Append(@, child)] ELSE nested[i]]
  ELSE Append(nested, [parent |-> parent, children |-> <<child>>])

\* `${parent} { ${children.join(" ")} }`
RenderGroup(entry) ==
  <<Name(entry.parent), Tok("{")>>
    \o Join([i \in 1 .. Len(entry.children) |-> PathTokens(entry.children[i])], <<>>)
    \o <<Tok("}")>>

RECURSIVE SelectionLoop(_, _, _)
SelectionLoop(paths, roots, nested) ==
  IF paths = <<>>
    THEN [i \in 1 .. Len(roots) |-> PathTokens(roots[i])]
         \o [i \in 1 .. Len(nested) |-> RenderGroup(nested[i])]
  ELSE LET path == Head(paths)
       IN IF Len(path) = 1
            THEN SelectionLoop(Tail(paths), PushRoot(roots, path), nested)
          ELSE SelectionLoop(Tail(paths), roots, NestedAdd(nested, Head(path), Tail(path)))

buildSelectionSet(paths) == SelectionLoop(paths, <<>>, <<>>)

IdPath == <<SegId>>

\* fields.map((f) => f.graphqlPath)
PathsOfFieldsOnly(fs) == [i \in 1 .. Len(fs) |-> fs[i].graphqlPath]

\* a path list without the leading id
PathsWithoutId(fs) == PathsOfFieldsOnly(fs)

\* ["id", ...fields.map((f) => f.graphqlPath)]
PathsWithId(fs) == <<IdPath>> \o PathsOfFieldsOnly(fs)

\* options?.filter, options?.variables: given and not the empty string
Truthy(options, k) == k \in DOMAIN options /\ options[k] # <<>>

buildQuery(queryName, fs, options) ==
  LET selected == buildSelectionSet(PathsWithId(fs))
      varParts ==
        (IF Truthy(options, "filter")
           THEN <<<<Var("filter"), Tok(":"), Name(options.filter)>>>> ELSE <<>>)
        \o (IF Truthy(options, "variables") THEN <<<<Raw(options.variables)>>>> ELSE <<>>)
      argParts ==
        IF Truthy(options, "filter")
          THEN <<<<Name(Str("filter")), Tok(":"), Var("filter")>>>> ELSE <<>>
      varStr == IF Len(varParts) > 0
                  THEN <<Tok("(")>> \o Join(varParts, <<Tok(",")>>) \o <<Tok(")")>> ELSE <<>>
      argStr == IF Len(argParts) > 0
                  THEN <<Tok("(")>> \o Join(argParts, <<Tok(",")>>) \o <<Tok(")")>> ELSE <<>>
      capitalized == capitalize(queryName)
  IN <<Tok("query"), Name(capitalized)>> \o varStr \o <<Tok("{"), Name(queryName)>> \o argStr
       \o <<Tok("{")>> \o Join(selected, <<>>) \o <<Tok("}"), Tok("}")>>

\* `${operation}${typeName}`
getMutationName(typeName, operation) == <<operation>> \o typeName

\* `${capitalizedOp}${typeName}Input`
getInputTypeName(typeName, operation) == capitalize(<<operation>>) \o typeName \o <<"Input">>

\* an input type name that ignores the override
InputTypeDerivedOnly(typeName, operation, args) == getInputTypeName(typeName, operation)

\* inputTypeName ?? getInputTypeName(typeName, operation); args holds the
\* optional third argument when it was passed
InputTypeOf(typeName, operation, args) ==
  IF "inputTypeName" \in DOMAIN args THEN args.inputTypeName
  ELSE getInputTypeName(typeName, operation)

buildUpdateMutation(typeName, returnFields, args) ==
  LET mutationName == getMutationName(typeName, "update")
      inputType == InputTypeOf(typeName, "update", args)
      selected == buildSelectionSet(PathsWithId(returnFields))
      capitalized == capitalize(mutationName)
  IN <<Tok("mutation"), Name(capitalized), Tok("("),
       Var("id"), Tok(":"), Name(Str("ID")), Tok("!"), Tok(","),
       Var("input"), Tok(":"), Name(inputType), Tok("!"), Tok(")"), Tok("{"),
       Name(mutationName), Tok("("), Name(Str("id")), Tok(":"), Var("id"), Tok(","),
       Name(Str("input")), Tok(":"), Var("input"), Tok(")"), Tok("{")>>
       \o Join(selected, <<>>) \o <<Tok("}"), Tok("}")>>

buildCreateMutation(typeName, returnFields, args) ==
  LET mutationName == getMutationName(typeName, "create")
      inputType == InputTypeOf(typeName, "create", args)
      selected == buildSelectionSet(PathsWithId(returnFields))
      capitalized == capitalize(mutationName)
  IN <<Tok("mutation"), Name(capitalized), Tok("("),
       Var("input"), Tok(":"), Name(inputType), Tok("!"), Tok(")"), Tok("{"),
       Name(mutationName), Tok("("), Name(Str("input")), Tok(":"), Var("input"), Tok(")"),
       Tok("{")>>
       \o Join(selected, <<>>) \o <<Tok("}"), Tok("}")>>

(***************************************************************************)
(* Inputs and runs of the builders                                         *)
(***************************************************************************)
MaxPaths == 3

QueryName == Str("orders")

\* graphqlPaths of hand-written field lists
QueryPaths == {<<SegId>>, <<SegA>>, <<SegA, SegB>>, <<SegA, SegC>>, <<SegC, SegB>>}

PathField(p) == [key |-> Join(p, <<>>), label |-> p, graphqlPath |-> p, type |-> "string"]

\* the field lists handed to the builders: hand-written ones, and registries
\* as buildRegistry returns them
QueryFieldLists ==
  UNION {[1 .. n -> {PathField(p) : p \in QueryPaths}] : n \in 0 .. MaxPaths}
  \cup {buildRegistry(NodeType, [maxDepth |-> d, nestedTypes |-> RegSchema]).fields :
          d \in 0 .. MaxDepthBound}
  \cup {OrderFields}

\* BuildQueryOptions
QueryOptionSet ==
  {f @@ v :
     f \in {NoOptions, [filter |-> Str("OrderFilter")], [filter |-> <<>>]},
     v \in {NoOptions, [variables |-> <<"$limit: Int">>]}}

\* the optional inputTypeName argument of the mutation builders
MutationArgs == {NoOptions, [inputTypeName |-> Str("OrderPatch")]}

InitQuery ==
  /\ qFields \in QueryFieldLists
  /\ qOptions \in QueryOptionSet
  /\ selections = NotBuilt
  /\ documents = NotBuilt
  /\ FlattenIdle /\ DriftIdle /\ RegistryIdle /\ IntrospectionIdle /\ ClientIdle

\* buildSelectionSet(qFields.map((f) => f.graphqlPath))
BuildSelectionSet ==
  /\ selections = NotBuilt
  /\ selections' = [built |-> TRUE, entries |-> buildSelectionSet(PathsOfFieldsOnly(qFields))]
  /\ UNCHANGED <<qFields, qOptions, documents>>
  /\ UNCHANGED <<flatVars, driftVars, regVars, introVars, clientVars>>

\* buildQuery("orders", qFields, qOptions)
BuildQuery ==
  /\ "query" \notin DOMAIN documents
  /\ documents' = ("query" :> buildQuery(QueryName, qFields, qOptions)) @@ documents
  /\ UNCHANGED <<qFields, qOptions, selections>>
  /\ UNCHANGED <<flatVars, driftVars, regVars, introVars, clientVars>>

\* buildUpdateMutation("Order", qFields, inputTypeName?)
BuildUpdateMutation ==
  /\ "update" \notin DOMAIN documents
  /\ \E args \in MutationArgs :
       documents' = ("update" :> buildUpdateMutation(OrderName, qFields, args))
                      @@ ("updateArgs" :> args) @@ documents
  /\ UNCHANGED <<qFields, qOptions, selections>>
  /\ UNCHANGED <<flatVars, driftVars, regVars, introVars, clientVars>>

\* buildCreateMutation("Order", qFields, inputTypeName?)
BuildCreateMutation ==
  /\ "create" \notin DOMAIN documents
  /\ \E args \in MutationArgs :
       documents' = ("create" :> buildCreateMutation(OrderName, qFields, args))
                      @@ ("createArgs" :> args) @@ documents
  /\ UNCHANGED <<qFields, qOptions, selections>>
  /\ UNCHANGED <<flatVars, driftVars, regVars, introVars, clientVars>>

NextQuery == BuildSelectionSet \/ BuildQuery \/ BuildUpdateMutation \/ BuildCreateMutation

SpecQuery == InitQuery /\ [][NextQuery]_vars

(***************************************************************************)
(* Properties of the builders                                              *)
(***************************************************************************)
SelPaths == PathsOfFieldsOnly(qFields)

RootsOf(ps) == SelectSeq(ps, LAMBDA p : Len(p) = 1)
DottedOf(ps) == SelectSeq(ps, LAMBDA p : Len(p) > 1)

\* the positions at which a parent segment is seen for the first time
FirstSeen(ps) == {i \in 1 .. Len(ps) : \A j \in 1 .. i - 1 : ps[j][1] # ps[i][1]}
Kth(S, k) == CHOOSE i \in S : Cardinality({j \in S : j <= i}) = k

\* what follows the first dot of every path under a parent, in order
ChildrenOf(ps, parent) ==
  LET mine == SelectSeq(ps, LAMBDA p : p[1] = parent)
  IN [i \in 1 .. Len(mine) |-> Tail(mine[i])]

\* a dotted string written out: names with a dot between them
DottedTokens(c) ==
  [i \in 1 .. 2 * Len(c) - 1 |-> IF i % 2 = 1 THEN Name(c[(i + 1) \div 2]) ELSE Tok(".")]

RECURSIVE Flat(_)
Flat(ss) == IF ss = <<>> THEN <<>> ELSE Head(ss) \o Flat(Tail(ss))

\* the roots in input order, then one 'parent { c1 c2 ... }' per parent in
\* first-seen order
GroupedEntries(ps) ==
  LET roots == RootsOf(ps)
      dotted == DottedOf(ps)
      first == FirstSeen(dotted)
  IN [i \in 1 .. Len(roots) + Cardinality(first) |->
        IF i <= Len(roots) THEN <<Name(roots[i][1])>>
        ELSE LET parent == dotted[Kth(first, i - Len(roots))][1]
                 children == ChildrenOf(dotted, parent)
             IN <<Name(parent), Tok("{")>>
                  \o Flat([k \in 1 .. Len(children) |-> DottedTokens(children[k])])
                  \o <<Tok("}")>>]

\* C17: buildSelectionSet returns the paths without a dot in input order, then
\* one entry per distinct parent in first-seen order, rendered as
\* 'parent { c1 c2 ... }' with the children (what follows the first dot) in
\* first-seen order.
C17_SelectionOrder ==
  selections # NotBuilt => selections.entries = GroupedEntries(SelPaths)

C17_Witness ==
  /\ selections # NotBuilt
  /\ \E i, j \in 1 .. Len(SelPaths) : i < j /\ Len(SelPaths[i]) > 1 /\ Len(SelPaths[j]) = 1
  /\ Cardinality(FirstSeen(DottedOf(SelPaths))) = 1
  /\ Len(DottedOf(SelPaths)) = 2
  /\ Len(selections.entries) = 2

Count(seq, x) == Cardinality({i \in 1 .. Len(seq) : seq[i] = x})

\* C18 as stated: every root path occurs at most once in the result, and a
\* query built from a field list with the path id selects id once.
C18_RootsDeduplicated ==
  /\ selections # NotBuilt
       => \A i, j \in 1 .. Len(selections.entries) :
            (Len(selections.entries[i]) = 1 /\ selections.entries[i] = selections.entries[j])
            => i = j
  /\ "query" \in DOMAIN documents => Count(documents.query, Name(SegId)) <= 1

\* C18 amended: buildSelectionSet keeps duplicates: every root path occurs in
\* the result as often as in the input, and a query built from a field list
\* with the path id selects id once more for each such field.
C18_RootsKeptAsGiven ==
  /\ selections # NotBuilt
       => \A p \in {SelPaths[i] : i \in 1 .. Len(SelPaths)} :
            Len(p) = 1 => Count(selections.entries, <<Name(p[1])>>) = Count(SelPaths, p)
  /\ "query" \in DOMAIN documents
       => Count(documents.query, Name(SegId)) = 1 + Count(SelPaths, IdPath)

C18_Witness ==
  /\ selections # NotBuilt
  /\ Count(SelPaths, <<SegA>>) = 2
  /\ Count(selections.entries, <<Name(SegA)>>) = 2
  /\ Count(SelPaths, IdPath) = 1
  /\ "query" \in DOMAIN documents
  /\ Count(documents.query, Name(SegId)) = 2

RECURSIVE Balanced(_, _)
Balanced(doc, open) ==
  IF doc = <<>> THEN open = 0
  ELSE IF Head(doc) = Tok("{") THEN Balanced(Tail(doc), open + 1)
  ELSE IF Head(doc) = Tok("}") THEN open > 0 /\ Balanced(Tail(doc), open - 1)
  ELSE Balanced(Tail(doc), open)

BuiltDocuments == DOMAIN documents \cap {"query", "update", "create"}

\* C19: every document buildQuery, buildUpdateMutation and buildCreateMutation
\* emit has balanced braces and no dotted path in a selection.
C19_ValidDocuments ==
  \A b \in BuiltDocuments :
    /\ Balanced(documents[b], 0)
    /\ Count(documents[b], Tok(".")) = 0

Supplied(k) == k \in DOMAIN qOptions /\ qOptions[k] # <<>>

\* the variable list and the call argument the options ask for
ExpectedVars ==
  IF Supplied("filter") /\ Supplied("variables")
    THEN <<Tok("("), Var("filter"), Tok(":"), Name(qOptions.filter), Tok(","),
           Raw(qOptions.variables), Tok(")")>>
  ELSE IF Supplied("filter")
    THEN <<Tok("("), Var("filter"), Tok(":"), Name(qOptions.filter), Tok(")")>>
  ELSE IF Supplied("variables") THEN <<Tok("("), Raw(qOptions.variables), Tok(")")>>
  ELSE <<>>
ExpectedArgs ==
  IF Supplied("filter")
    THEN <<Tok("("), Name(Str("filter")), Tok(":"), Var("filter"), Tok(")")>> ELSE <<>>

\* the document with the given selection entries
QueryWith(entries) ==
  <<Tok("query"), Name(<<"Orders">>)>> \o ExpectedVars \o <<Tok("{"), Name(<<"orders">>)>>
    \o ExpectedArgs \o <<Tok("{")>> \o Flat(entries) \o <<Tok("}"), Tok("}")>>

\* one selection per field, in field order: a root path as it is, a nested
\* path under its parent, fields of one parent in the entry of its first field
InFieldOrder(ps) ==
  LET first == {i \in 1 .. Len(ps) :
                  Len(ps[i]) = 1 \/ \A j \in 1 .. i - 1 : ~(Len(ps[j]) > 1 /\ ps[j][1] = ps[i][1])}
  IN [k \in 1 .. Cardinality(first) |->
        LET p == ps[Kth(first, k)]
        IN IF Len(p) = 1 THEN <<Name(p[1])>>
           ELSE <<Name(p[1]), Tok("{")>>
                  \o Flat([c \in 1 .. Len(ChildrenOf(DottedOf(ps), p[1])) |->
                             DottedTokens(ChildrenOf(DottedOf(ps), p[1])[c])])
                  \o <<Tok("}")>>]

\* C20 as stated: the query selects id, then the selections of the fields in
\* field order, with the variable list, call argument and operation name the
\* options and the query name ask for.
C20_QueryInFieldOrder ==
  "query" \in DOMAIN documents
  => documents.query = QueryWith(<<<<Name(SegId)>>>> \o InFieldOrder(SelPaths))

\* C20 amended: the query selects id, then the root paths of the fields in
\* field order, then the nested groups in the order their parents are first
\* seen; the variable list, call argument and operation name are as stated,
\* an empty filter or variables string counting as not given.
C20_QueryRootsThenGroups ==
  "query" \in DOMAIN documents
  => documents.query = QueryWith(GroupedEntries(<<IdPath>> \o SelPaths))

C20_Witness ==
  /\ "query" \in DOMAIN documents
  /\ Supplied("filter") /\ Supplied("variables")
  /\ \E i, j \in 1 .. Len(SelPaths) : i < j /\ Len(SelPaths[i]) > 1 /\ Len(SelPaths[j]) = 1
  /\ documents.query[Len(ExpectedVars) + Len(ExpectedArgs) + 6] = Name(SegId)

\* the input type a mutation document must declare: the override when one was
\* passed, else <Operation><Type>Input
DeclaredInputType(op, given) ==
  IF "inputTypeName" \in DOMAIN given THEN given.inputTypeName
  ELSE IF op = "update" THEN <<"Update", "Order", "Input">>
  ELSE <<"Create", "Order", "Input">>

\* the selection of a mutation: id, then the paths of the return fields
ReturnSelection == Flat(GroupedEntries(<<IdPath>> \o SelPaths))

\* an argument 'id:' somewhere in the document
HasIdArgument(doc) ==
  \E i \in 1 .. Len(doc) - 1 : doc[i] = Name(SegId) /\ doc[i + 1] = Tok(":")

\* C21: buildUpdateMutation declares exactly $id: ID! and $input: <InputType>!
\* and calls update<Type>(id: $id, input: $input); buildCreateMutation declares
\* only $input: <InputType>! and its document holds neither $id nor an id:
\* argument; <InputType> is <Operation><Type>Input unless an override is
\* passed; both select id followed by the paths of the return fields.
C21_MutationDocuments ==
  /\ "update" \in DOMAIN documents
       => documents.update =
            <<Tok("mutation"), Name(<<"Update", "Order">>), Tok("("),
              Var("id"), Tok(":"), Name(<<"ID">>), Tok("!"), Tok(","),
              Var("input"), Tok(":"), Name(DeclaredInputType("update", documents.updateArgs)),
              Tok("!"), Tok(")"), Tok("{"),
              Name(<<"update", "Order">>), Tok("("), Name(<<"id">>), Tok(":"), Var("id"),
              Tok(","), Name(<<"input">>), Tok(":"), Var("input"), Tok(")"), Tok("{")>>
            \o ReturnSelection \o <<Tok("}"), Tok("}")>>
  /\ "create" \in DOMAIN documents
       => /\ documents.create =
               <<Tok("mutation"), Name(<<"Create", "Order">>), Tok("("),
                 Var("input"), Tok(":"), Name(DeclaredInputType("create", documents.createArgs)),
                 Tok("!"), Tok(")"), Tok("{"),
                 Name(<<"create", "Order">>), Tok("("), Name(<<"input">>), Tok(":"),
                 Var("input"), Tok(")"), Tok("{")>>
               \o ReturnSelection \o <<Tok("}"), Tok("}")>>
          /\ Count(documents.create, Var("id")) = 0
          /\ ~HasIdArgument(documents.create)

C21_Witness ==
  /\ "update" \in DOMAIN documents /\ "create" \in DOMAIN documents
  /\ "inputTypeName" \in DOMAIN documents.updateArgs
  /\ "inputTypeName" \notin DOMAIN documents.createArgs
  /\ Count(SelPaths, IdPath) = 1
  /\ \E i \in 1 .. Len(SelPaths) : Len(SelPaths[i]) > 1
  /\ Count(documents.update, Var("id")) = 2
  /\ Count(documents.create, Name(SegId)) = 2

(***************************************************************************)
(* core/introspection.ts on its own: unwrapType on wrapper chains and one  *)
(* introspectType call against the built-in transport                      *)
(***************************************************************************)
MaxWrap == 3

WrapperKinds == {"NON_NULL", "LIST"}

\* where a chain ends: a named type, or a wrapper whose ofType is missing or null
NamedEnds ==
  {ScalarT("Int"), ObjectT("Address"), EnumT("OrderStatus", <<"PENDING", "SHIPPED">>)}
OpenEnds == {[kind |-> "NON_NULL"], [kind |-> "LIST", ofType |-> Null]}
ChainEnds == NamedEnds \cup OpenEnds

RECURSIVE Wrap(_, _)
Wrap(kinds, end) ==
  IF kinds = <<>> THEN end ELSE [kind |-> Head(kinds), ofType |-> Wrap(Tail(kinds), end)]

WrapperChains == SeqsUpTo(WrapperKinds, MaxWrap)
TypeRefs == {Wrap(k, e) : k \in WrapperChains, e \in ChainEnds}

IntrospectNames == {OrderName, Str("Address"), Str("Missing")}
ErrorLists == {<<"Introspection disabled">>, <<"Not authorized", "Field error">>}

\* what the transport may answer: a failed status, or a body with an errors
\* list and with or without data
IntroResponses(name) ==
  {[ok |-> FALSE, status |-> st] : st \in {401, 500}}
  \cup {[ok |-> TRUE, errors |-> e] : e \in ErrorLists \cup {<<>>}}
  \cup {[ok |-> TRUE, errors |-> e, data |-> [type |-> Null]] : e \in ErrorLists \cup {<<>>}}
  \cup (IF name \in DOMAIN Schema
          THEN {[ok |-> TRUE, errors |-> e, data |-> [type |-> Schema[name]]] :
                  e \in ErrorLists \cup {<<>>}}
        ELSE {})

InitIntrospection ==
  /\ typeRef \in TypeRefs
  /\ terminal = NotBuilt
  /\ introCall = NotCalled
  /\ FlattenIdle /\ DriftIdle /\ RegistryIdle /\ QueryIdle /\ ClientIdle

\* unwrapType(typeRef)
UnwrapType ==
  /\ terminal = NotBuilt
  /\ terminal' = [built |-> TRUE, value |-> unwrapType(typeRef)]
  /\ UNCHANGED <<typeRef, introCall>>
  /\ UNCHANGED <<flatVars, driftVars, regVars, queryVars, clientVars>>

\* introspectType(typeName, config) up to its await
IntrospectType ==
  /\ introCall = NotCalled
  /\ \E typeName \in IntrospectNames :
       introCall' = [state |-> "pending", typeName |-> typeName]
  /\ UNCHANGED <<typeRef, terminal>>
  /\ UNCHANGED <<flatVars, driftVars, regVars, queryVars, clientVars>>

\* the transport answers and introspectType runs to its end
IntrospectionRespond ==
  /\ introCall.state = "pending"
  /\ \E resp \in IntroResponses(introCall.typeName) :
       LET r == introspectType(introCall.typeName, Config, resp)
       IN introCall' = [state |-> IF r.threw THEN "rejected" ELSE "fulfilled",
                        typeName |-> introCall.typeName, response |-> resp, result |-> r]
  /\ UNCHANGED <<typeRef, terminal>>
  /\ UNCHANGED <<flatVars, driftVars, regVars, queryVars, clientVars>>

NextIntrospection == UnwrapType \/ IntrospectType \/ IntrospectionRespond

SpecIntrospection == InitIntrospection /\ [][NextIntrospection]_vars

\* C22: for every chain of up to MaxWrap NON_NULL / LIST wrappers, unwrapType
\* returns the node the chain ends in: the named type (SCALAR, OBJECT, ENUM)
\* below the wrappers, or the wrapper that has no ofType.
C22_UnwrapReturnsTerminal ==
  terminal # NotBuilt
  => \A k \in WrapperChains, e \in ChainEnds : typeRef = Wrap(k, e) => terminal.value = e

C22_Witness ==
  /\ terminal # NotBuilt
  /\ typeRef = NonNullT(ListT(NonNullT(ScalarT("Int"))))
  /\ terminal.value = ScalarT("Int")

Settled(call) == call.state \in {"fulfilled", "rejected"}

\* the response holds a type for the name asked
CarriesType(resp) == "data" \in DOMAIN resp /\ resp.data.type # Null

\* C24: with the built-in transport introspectType rejects on a failed status
\* (the error carries the status code), on a non-empty errors list (the error
\* is the joined messages, whatever data came with them) and when the
\* response holds no type for T (the error names T); it resolves only with
\* the __type payload of a successful response without errors.
C24_NoPartialResult ==
  Settled(introCall)
  => LET resp == introCall.response
         r == introCall.result
     IN IF ~resp.ok
          THEN introCall.state = "rejected" /\ r.error = HttpError(resp.status)
        ELSE IF resp.errors # <<>>
          THEN introCall.state = "rejected" /\ r.error = GqlError(resp.errors)
        ELSE IF ~CarriesType(resp)
          THEN introCall.state = "rejected" /\ r.error = TypeNotFound(introCall.typeName)
        ELSE introCall.state = "fulfilled" /\ r.value = resp.data.type

C24_Witness ==
  /\ introCall.state = "rejected"
  /\ introCall.response.ok
  /\ introCall.response.errors # <<>>
  /\ CarriesType(introCall.response)
  /\ introCall.result.error = GqlError(<<"Not authorized", "Field error">>)

(***************************************************************************)
(* core/drift.ts: client.update and client.create; react/options.ts and    *)
(* react/hooks.ts: the default query name                                  *)
(***************************************************************************)
\* the lower-case form of a word of a type name
LowerWord(w) ==
  CASE w = "Order" -> "order"
    [] w = "Item" -> "item"
    [] w = "User" -> "user"
    [] OTHER -> w

\* typeName.charAt(0).toLowerCase() + typeName.slice(1) + "s"
defaultQueryName(typeName) == <<LowerWord(Head(typeName))>> \o Tail(typeName) \o <<"s">>

\* params.queryName ?? defaultQueryName(type.typeName)
QueryNameOf(params, type) ==
  IF "queryName" \in DOMAIN params THEN params.queryName ELSE defaultQueryName(type.typeName)

UpdateRequiresId == [message |-> "Update requires an id"]

\* options.id, undefined when it is not given
IdOf(options) == IF "id" \in DOMAIN options THEN options.id ELSE Undefined

\* an update that takes any id
IdNeverMissing(options) == FALSE

\* !options.id: not given, or the empty string
IdMissing(options) == IdOf(options) \in {Undefined, Prim("")}

\* options.returnFields ?? type.fields
ReturnFieldsOf(type, options) ==
  IF "returnFields" \in DOMAIN options THEN options.returnFields ELSE type.fields

\* an update that sends every input field
UpdateInputOfInputFields(type, options) == unflatten(options.values, type.inputFields)

\* const input = unflatten(options.values, type.editableFields)
UpdateInput(type, options) == unflatten(options.values, type.editableFields)

\* const input = unflatten(options.values, type.inputFields)
CreateInput(type, options) == unflatten(options.values, type.inputFields)

\* gqlFetch(config, query, variables) up to its await: the request handed to
\* the transport
Request(query, variables) == [query |-> query, variables |-> variables]

(***************************************************************************)
(* Inputs and runs of the client                                           *)
(***************************************************************************)
OrderItemName == <<"Order", "Item">>

\* the DriftTypes handed to the client: the static ones, and one whose name
\* has two capital letters
ClientTypes ==
  {defineDriftType(o) : o \in StaticOptions}
  \cup {defineDriftType([typeName |-> OrderItemName, fields |-> OrderFields,
                         inputFields |-> OrderInputFields])}

\* flat rows over the keys of the Order registries and one unknown key
ValueKeys == {Str("status"), Str("total"), <<"shipping", "Address", "City">>, Str("note"),
              Str("bogus")}
ValueRows ==
  {Obj([n \in {<<k>> : k \in S} |-> Prim(n)]) : S \in SUBSET ValueKeys}

ClientOptions ==
  {i @@ r @@ [values |-> v] :
     i \in {NoOptions, [id |-> Prim("1")], [id |-> Prim("")]},
     r \in {NoOptions, [returnFields |-> <<OrderFields[1]>>]},
     v \in ValueRows}

\* what the transport may answer to a mutation
MutationResponses ==
  {[ok |-> FALSE, status |-> 500],
   [ok |-> TRUE, errors |-> <<"Not authorized">>],
   [ok |-> TRUE, errors |-> <<>>, data |-> [type |-> Null]]}

InitClient ==
  /\ cType \in ClientTypes
  /\ cOptions \in ClientOptions
  /\ sent = <<>>
  /\ outcome = NotCalled
  /\ queryNames = NotBuilt
  /\ FlattenIdle /\ DriftIdle /\ RegistryIdle /\ QueryIdle /\ IntrospectionIdle

\* client.update(cType, cOptions) up to the await inside gqlFetch
Update ==
  /\ outcome = NotCalled
  /\ LET input == UpdateInput(cType, cOptions)
         mutationStr ==
           buildUpdateMutation(cType.typeName, ReturnFieldsOf(cType, cOptions), NoOptions)
     IN IF IdMissing(cOptions)
          THEN /\ outcome' = [call |-> "update", state |-> "rejected", error |-> UpdateRequiresId]
               /\ sent' = sent
        ELSE IF input = TypeError
          THEN /\ outcome' = [call |-> "update", state |-> "rejected", error |-> TypeError]
               /\ sent' = sent
        ELSE /\ outcome' = [call |-> "update", state |-> "pending"]
             /\ sent' = Append(sent, Request(mutationStr,
                                             [id |-> IdOf(cOptions), input |-> input]))
  /\ UNCHANGED <<cType, cOptions, queryNames>>
  /\ UNCHANGED <<flatVars, driftVars, regVars, queryVars, introVars>>

\* client.create(cType, cOptions) up to the await inside gqlFetch
Create ==
  /\ outcome = NotCalled
  /\ LET input == CreateInput(cType, cOptions)
         mutationStr ==
           buildCreateMutation(cType.typeName, ReturnFieldsOf(cType, cOptions), NoOptions)
     IN IF input = TypeError
          THEN /\ outcome' = [call |-> "create", state |-> "rejected", error |-> TypeError]
               /\ sent' = sent
        ELSE /\ outcome' = [call |-> "create", state |-> "pending"]
             /\ sent' = Append(sent, Request(mutationStr, [input |-> input]))
  /\ UNCHANGED <<cType, cOptions, queryNames>>
  /\ UNCHANGED <<flatVars, driftVars, regVars, queryVars, introVars>>

\* the transport answers the mutation and the call settles
ClientRespond ==
  /\ outcome.state = "pending"
  /\ \E resp \in MutationResponses :
       LET r == gqlFetch(Config, resp)
       IN outcome' = [call |-> outcome.call,
                      state |-> IF r.threw THEN "rejected" ELSE "fulfilled",
                      result |-> r]
  /\ UNCHANGED <<cType, cOptions, sent, queryNames>>
  /\ UNCHANGED <<flatVars, driftVars, regVars, queryVars, introVars>>

QueryNameParams == {NoOptions, [queryName |-> Str("allOrders")]}

\* the helper derives the query name for cType: driftQueryKey,
\* driftQueryOptions or useDriftType
DeriveQueryName(helper) ==
  /\ helper \notin DOMAIN queryNames
  /\ \E params \in QueryNameParams :
       queryNames' = (helper :> [params |-> params, queryName |-> QueryNameOf(params, cType)])
                     @@ queryNames
  /\ UNCHANGED <<cType, cOptions, sent, outcome>>
  /\ UNCHANGED <<flatVars, driftVars, regVars, queryVars, introVars>>

QueryHelpers == {"driftQueryKey", "driftQueryOptions", "useDriftType"}

NextClient ==
  \/ Update
  \/ Create
  \/ ClientRespond
  \/ \E helper \in QueryHelpers : DeriveQueryName(helper)

SpecClient == InitClient /\ [][NextClient]_vars

\* C23: wherever the default query name is derived, it is the type name in
\* lower case followed by s, also for a type name with more than one capital
\* letter.
C23_LowercaseQueryName ==
  \A helper \in QueryHelpers \cap DOMAIN queryNames :
    "queryName" \notin DOMAIN queryNames[helper].params
    => queryNames[helper].queryName =
         [i \in 1 .. Len(cType.typeName) |-> LowerWord(cType.typeName[i])] \o <<"s">>

\* C25: client.update without an id rejects with 'Update requires an id' and
\* hands nothing to the transport; with an id it hands the transport exactly
\* one request, whose variables are id and input.
C25_UpdateRequiresId ==
  ("call" \in DOMAIN outcome /\ outcome.call = "update")
  => IF "id" \notin DOMAIN cOptions \/ cOptions.id = Prim("")
       THEN /\ outcome.state = "rejected"
            /\ outcome.error = UpdateRequiresId
            /\ sent = <<>>
     ELSE /\ Len(sent) = 1
          /\ DOMAIN sent[1].variables = {"id", "input"}
          /\ sent[1].variables.id = cOptions.id

C25_Witness ==
  /\ "call" \in DOMAIN outcome /\ outcome.call = "update"
  /\ "id" \notin DOMAIN cOptions
  /\ outcome.state = "rejected"
  /\ sent = <<>>

\* the paths at which a nested object holds a value that is no object
RECURSIVE LeafPaths(_)
LeafPaths(x) ==
  UNION {IF x.props[n].t = "object" /\ DOMAIN x.props[n].props # {}
           THEN {n \o p : p \in LeafPaths(x.props[n])}
         ELSE {n} : n \in DOMAIN x.props}

\* the fields whose key the values hold
Held(fs, values) == {fs[i] : i \in {j \in 1 .. Len(fs) : HasOwn(values, <<fs[j].key>>)}}

\* the input holds the values of the given fields at their paths, nothing else
InputOf(input, fs, values) ==
  /\ LeafPaths(input) = {f.graphqlPath : f \in Held(fs, values)}
  /\ \A f \in Held(fs, values) : OwnValue(input, f.graphqlPath) = values.props[<<f.key>>]

DeepFieldLists ==
  {buildRegistry(NodeType, [maxDepth |-> d, nestedTypes |-> RegSchema]).fields :
     d \in 0 .. MaxDepthBound}

\* a Node of the given depth: a name, and a child while depth is left
RECURSIVE NodeObjs(_)
NodeObjs(d) ==
  IF d = 0
    THEN {Obj([n \in {<<Str("name")>>} |-> v]) : v \in {Prim("v1"), Prim("v2")}}
  ELSE {Obj([n \in {<<Str("name")>>, <<Str("child")>>} |->
               IF n = <<Str("name")>> THEN v ELSE c]) :
          v \in {Prim("v1"), Prim("v2")}, c \in NodeObjs(d - 1)}

DeepData == UNION {NodeObjs(d) : d \in 0 .. MaxDepthBound}

InitDeepFlatten ==
  /\ DriftIdle /\ RegistryIdle /\ QueryIdle /\ IntrospectionIdle /\ ClientIdle
  /\ fields \in DeepFieldLists
  /\ data \in DeepData
  /\ row = Undefined
  /\ flatData = Undefined
  /\ out = Undefined
  /\ pc = "start"

SpecDeepFlatten == InitDeepFlatten /\ [][NextFlatten]_vars

\* C26: for a field list the registry builder returns with maxDepth >= 2
\* (paths with two or more dots) and an object x that holds exactly the paths
\* of the list, unflatten(flatten(x, fields), fields) is x.
C26_RoundTripDeep ==
  (pc = "roundtrip" /\ LeafPaths(data) = PathsOf(fields)
     /\ \E p \in PathsOf(fields) : Len(p) >= 3)
  => out = data

(***************************************************************************)
(* The requests of buildRegistryAsync, and termination of the builders     *)
(***************************************************************************)
\* the OBJECT fields a build of the type meets while depth budget is left,
\* by path, with the name of their type: read off the schema
RECURSIVE ObjectFieldsWithin(_, _, _)
ObjectFieldsWithin(type, pathPrefix, budget) ==
  IF budget = 0 THEN {}
  ELSE UNION
    {LET f == type.fields[i]
         u == unwrapType(f.type)
         path == Append(pathPrefix, f.name)
     IN IF f.name # SegId /\ u.kind = "OBJECT"
          THEN {[path |-> path, name |-> u.name]}
               \cup (IF u.name \in DOMAIN RegSchema
                       THEN ObjectFieldsWithin(RegSchema[u.name], path, budget - 1)
                     ELSE {})
        ELSE {} : i \in 1 .. Len(type.fields)}

AsyncCalled == asyncReg # NotCalled

\* C27 as stated: a type name is requested once, the first time it is met;
\* the only repeated requests for one name are for fields at the same depth.
C27_RepeatsOnlyAmongSiblings ==
  AsyncCalled
  => \A i, j \in 1 .. Len(asyncReg.requests) :
       (i < j /\ asyncReg.requests[i] = asyncReg.requests[j])
       => (i >= 2 /\ Len(asyncReg.at[i]) = Len(asyncReg.at[j]))

\* C27 amended: buildRegistryAsync requests the root type once and then the
\* type of every OBJECT field it meets while depth budget is left, one
\* request per field met, whether or not that type name was requested
\* before; it requests nothing for an OBJECT field met when the budget is
\* exhausted, and a fulfilled build has requested every such field.
C27_RequestPerObjectField ==
  AsyncCalled
  => LET rq == asyncReg.requests
         at == asyncReg.at
         within == ObjectFieldsWithin(regType, <<>>, ConfigDepth)
     IN /\ rq[1] = regType.name /\ at[1] = <<>>
        /\ \A i \in 2 .. Len(rq) : [path |-> at[i], name |-> rq[i]] \in within
        /\ \A i, j \in 1 .. Len(rq) : i # j => at[i] # at[j]
        /\ AsyncDone => {at[i] : i \in 2 .. Len(rq)} = {e.path : e \in within}

C27_Witness ==
  /\ AsyncDone
  /\ regType = AuthorType
  /\ ConfigDepth = 2
  /\ asyncReg.requests = <<AuthorName, BookName, AuthorName, BookName, AuthorName>>
  /\ asyncReg.at[3] = <<Str("first"), Str("author")>>

\* C28: buildRegistry returns for every maxDepth and nestedTypes, also for
\* types that nest themselves or each other; buildRegistryAsync settles when
\* every request is answered, after no more requests than the root and the
\* OBJECT fields within the depth budget.
C28_BuildersTerminate ==
  /\ [](registry = NotBuilt => ENABLED BuildRegistry)
  /\ (asyncReg.state = "pending") ~> (asyncReg.state \in {"fulfilled", "rejected"})
  /\ [](AsyncCalled
        => Len(asyncReg.requests)
             <= 1 + Cardinality(ObjectFieldsWithin(regType, <<>>, ConfigDepth)))

C28_Witness ==
  /\ SyncDone /\ AsyncDone
  /\ regType = AuthorType
  /\ ConfigDepth = MaxDepthBound
  /\ ConfigNested = [n \in {AuthorName, BookName} |-> RegSchema[n]]
  /\ \E i \in 1 .. Len(registry.fields) : Len(registry.fields[i].graphqlPath) = MaxDepthBound + 1
  /\ Len(asyncReg.requests) > MaxDepthBound

(***************************************************************************)
(* The DriftType of the runtime path and of the generated module           *)
(***************************************************************************)
\* the schema has no Update<T>Input for the type name
NoInputType(typeName) == InputTypeNameOf(typeName) \notin DOMAIN Schema

\* C29: for a type without an Update<T>Input, the DriftType client.type(T)
\* resolves to and the DriftType of the generated module both have empty
\* inputFields and empty editableFields.
C29_RuntimeAndStaticAgree ==
  /\ \A p \in 1 .. Len(promises) :
       (promises[p].state = "fulfilled" /\ NoInputType(promises[p].typeName))
       => /\ promises[p].value.inputFields = <<>>
          /\ promises[p].value.editableFields = <<>>
  /\ \A d \in defined :
       ("generated" \in DOMAIN d /\ NoInputType(d.type.typeName))
       => /\ d.type.inputFields = <<>>
          /\ d.type.editableFields = <<>>

====
